---- MODULE Spec2Model ----
(***************************************************************************)
(* Measurement and scheduling engine of micro-optimize-algo:               *)
(*   utils/bench.rs         SeededRng, shuffle, shuffle_with_rng           *)
(*   utils/runner.rs        run_benchmarks and its helpers                 *)
(*   utils/timer.rs         measure_variants                               *)
(*   utils/cpu_affinity.rs  platform (linux), pin/unpin, CpuPinGuard       *)
(***************************************************************************)
EXTENDS Integers, Sequences, FiniteSets, TLC

(***************************************************************************)
(* Bounds of the model.                                                    *)
(***************************************************************************)
MaxVariants == 2
MaxRuns == 2
MaxWarmup == 1
\* tasks of one harness call: closures times runs
MaxTasks == 4
MaxSliceLen == 3
MaxGuards == 2
\* cores of the machine
NumCores == 2

(***************************************************************************)
(* u64 arithmetic.  A u64 is a sequence of 8 bytes, least significant      *)
(* first, so that wrapping_mul / wrapping_add keep their 64-bit width.     *)
(***************************************************************************)
U64Bytes == 8

\* the byte sequence of a small natural n (n < 2^31)
U64Of(n) ==
  << n % 256, (n \div 256) % 256, (n \div 65536) % 256, (n \div 16777216) % 256,
     0, 0, 0, 0 >>

\* u64::wrapping_mul: schoolbook product truncated to the low 8 bytes
WrappingMul(a, b) ==
  LET col(k) == LET RECURSIVE s(_)
                    s(i) == IF i > k THEN 0
                            ELSE a[i + 1] * b[k - i + 1] + s(i + 1)
                IN s(0)
      carry[k \in 0..U64Bytes] ==
        IF k = 0 THEN 0 ELSE (col(k - 1) + carry[k - 1]) \div 256
  IN [k \in 1..U64Bytes |-> (col(k - 1) + carry[k - 1]) % 256]

\* u64::wrapping_add
WrappingAdd(a, b) ==
  LET carry[k \in 0..U64Bytes] ==
        IF k = 0 THEN 0 ELSE (a[k] + b[k] + carry[k - 1]) \div 256
  IN [k \in 1..U64Bytes |-> (a[k] + b[k] + carry[k - 1]) % 256]

\* (x >> 33) as usize: the top 31 bits of x, which fit a plain integer
Shr33(x) ==
  (x[5] \div 2) + x[6] * 128 + x[7] * 32768 + x[8] * 8388608

(***************************************************************************)
(* SeededRng (utils/bench.rs)                                              *)
(***************************************************************************)
\* 6364136223846793005 = 0x5851F42D4C957F2D
LcgMultiplier == << 45, 127, 149, 76, 45, 244, 81, 88 >>

\* SeededRng::new
SeededRngNew(seed) == seed

\* SeededRng::next_u64: the new state, which is also the value returned
NextU64(state) == WrappingAdd(WrappingMul(state, LcgMultiplier), U64Of(1))

(***************************************************************************)
(* shuffle / shuffle_with_rng (utils/bench.rs).  Slices are 1-based here,  *)
(* the index i of the code is position i + 1.                              *)
(***************************************************************************)
\* a swap that forgets the second store
Swap_OneStore(slice, i, j) ==
  [slice EXCEPT ![i + 1] = slice[j + 1]]

\* slice.swap(i, j)
Swap(slice, i, j) ==
  [slice EXCEPT ![i + 1] = slice[j + 1], ![j + 1] = slice[i + 1]]

\* an index drawn among the positions below i only
DrawIndex_BelowI(drawn, i) == Shr33(drawn) % i

\* the index drawn for step i: (rng.next_u64() >> 33) as usize % (i + 1)
DrawIndex(drawn, i) == Shr33(drawn) % (i + 1)

\* one iteration of the loop body for index i
ShuffleStep(slice, rng, i) ==
  LET drawn == NextU64(rng)
      j == DrawIndex(drawn, i)
  IN [slice |-> Swap(slice, i, j), rng |-> drawn, j |-> j]

\* Option<T>
None == << >>
Some(v) == << v >>
IsSome(o) == o # None
Unwrap(o) == o[1]

(***************************************************************************)
(* Task generation (runner.rs generate_shuffled_tasks, timer.rs            *)
(* measure_variants): (0..n).flat_map(|c| (0..runs).map(move |r| (c, r)))  *)
(***************************************************************************)
GenerateTasks_WrongStride(num_closures, runs) ==
  [p \in 1..(num_closures * runs) |->
     << (p - 1) \div num_closures, (p - 1) % runs >>]

GenerateTasks(num_closures, runs) ==
  [p \in 1..(num_closures * runs) |-> << (p - 1) \div runs, (p - 1) % runs >>]

\* a seed that always comes from the clock
EffectiveSeed_Clock(seed, time) == time

\* seed.unwrap_or_else(time_seed), with the value time_seed() would return
EffectiveSeed(seed, time) == IF IsSome(seed) THEN Unwrap(seed) ELSE time

(***************************************************************************)
(* CPU affinity (utils/cpu_affinity.rs).  A thread is                      *)
(*   affinity           the kernel's affinity mask of the thread           *)
(*   ORIGINAL_AFFINITY  the thread-local slot of the saved mask (linux)    *)
(*   WAS_PINNED         the thread-local flag (macos)                      *)
(* and the thread-locals it has tell which `mod platform` is compiled in.  *)
(* The outcome of every system call is an argument: `ok` is "returned 0".  *)
(***************************************************************************)
Cores == 0..(NumCores - 1)
\* the masks a thread can start with: every core, or a restricted set
InitialMasks == { Cores, { NumCores - 1 } }

\* the #[cfg(target_os = ..)] that selected mod platform
Platform(t) ==
  IF "ORIGINAL_AFFINITY" \in DOMAIN t THEN "linux"
  ELSE IF "WAS_PINNED" \in DOMAIN t THEN "macos"
  ELSE "fallback"

\* platform::save_affinity
SaveAffinity(t, ok) ==
  CASE Platform(t) = "linux" ->
         IF ok
         THEN [thread |-> [t EXCEPT !.ORIGINAL_AFFINITY = Some(t.affinity)],
               ret |-> TRUE]
         ELSE [thread |-> t, ret |-> FALSE]
    [] Platform(t) = "macos" ->
         [thread |-> [t EXCEPT !.WAS_PINNED = FALSE], ret |-> TRUE]
    [] Platform(t) = "fallback" -> [thread |-> t, ret |-> TRUE]

\* a set_affinity that reports the macos hint as a pin
SetAffinity_HintPins(t, core_id, ok) ==
  CASE Platform(t) = "linux" ->
         IF ok
         THEN [thread |-> [t EXCEPT !.affinity = { core_id }], ret |-> TRUE]
         ELSE [thread |-> t, ret |-> FALSE]
    [] Platform(t) = "macos" ->
         [thread |-> [t EXCEPT !.WAS_PINNED = TRUE], ret |-> TRUE]
    [] Platform(t) = "fallback" -> [thread |-> t, ret |-> FALSE]

\* platform::set_affinity
SetAffinity(t, core_id, ok) ==
  CASE Platform(t) = "linux" ->
         IF ok
         THEN [thread |-> [t EXCEPT !.affinity = { core_id }], ret |-> TRUE]
         ELSE [thread |-> t, ret |-> FALSE]
    [] Platform(t) = "macos" ->
         [thread |-> [t EXCEPT !.WAS_PINNED = TRUE], ret |-> FALSE]
    [] Platform(t) = "fallback" -> [thread |-> t, ret |-> FALSE]

\* platform::restore_affinity; on linux take() empties the slot whatever
\* the call returns
RestoreAffinity(t, ok) ==
  CASE Platform(t) = "linux" ->
         IF IsSome(t.ORIGINAL_AFFINITY)
         THEN [thread |-> [affinity |-> IF ok
                                        THEN Unwrap(t.ORIGINAL_AFFINITY)
                                        ELSE t.affinity,
                           ORIGINAL_AFFINITY |-> None],
               ret |-> ok]
         ELSE [thread |-> t, ret |-> FALSE]
    [] Platform(t) = "macos" ->
         [thread |-> [t EXCEPT !.WAS_PINNED = FALSE], ret |-> TRUE]
    [] Platform(t) = "fallback" -> [thread |-> t, ret |-> TRUE]

\* pin_to_core: the result of save_affinity is dropped
PinToCore(t, core_id, save_ok, set_ok) ==
  SetAffinity(SaveAffinity(t, save_ok).thread, core_id, set_ok)

\* platform::get_core_ids and cores.first()
FirstCore(cores_ok) == IF cores_ok THEN Some(0) ELSE None

\* pin_to_first_core
PinToFirstCore(t, cores_ok, save_ok, set_ok) ==
  IF ~IsSome(FirstCore(cores_ok)) THEN [thread |-> t, ret |-> None]
  ELSE LET core == Unwrap(FirstCore(cores_ok))
           pin == PinToCore(t, core, save_ok, set_ok)
       IN [thread |-> pin.thread, ret |-> IF pin.ret THEN Some(core) ELSE None]

\* The outcomes of the calls one pin_to_current_core makes:
\*   cpu            platform::get_current_cpu()
\*   save1, set1    the calls of pin_to_core(current)
\*   cores          platform::get_core_ids() is Some
\*   save2, set2    the calls of pin_to_core(first core)
\* Outcomes of calls that are not made are FALSE.  Off linux
\* get_current_cpu is None, save_affinity returns true and set_affinity
\* false; the fallback get_core_ids is None.
PinOutcomes(t) ==
  { o \in [cpu : { None } \cup { Some(c) : c \in t.affinity },
           save1 : BOOLEAN, set1 : BOOLEAN, cores : BOOLEAN,
           save2 : BOOLEAN, set2 : BOOLEAN] :
      /\ ~IsSome(o.cpu) => (~o.save1 /\ ~o.set1)
      /\ (IsSome(o.cpu) /\ o.set1) => (~o.cores /\ ~o.save2 /\ ~o.set2)
      /\ ~o.cores => (~o.save2 /\ ~o.set2)
      /\ Platform(t) # "linux" =>
           (~IsSome(o.cpu) /\ o.save2 = o.cores /\ ~o.set2)
      /\ Platform(t) = "fallback" => ~o.cores }

\* pin_to_current_core
PinToCurrentCore(t, o) ==
  LET first == IF IsSome(o.cpu)
               THEN PinToCore(t, Unwrap(o.cpu), o.save1, o.set1)
               ELSE [thread |-> t, ret |-> FALSE]
  IN IF IsSome(o.cpu) /\ first.ret
     THEN [thread |-> first.thread, ret |-> o.cpu]
     ELSE PinToFirstCore(first.thread, o.cores, o.save2, o.set2)

\* unpin
Unpin(t, ok) == RestoreAffinity(t, ok)

\* CpuPinGuard::new: the thread afterwards and the guard's pinned_core
CpuPinGuardNew(t, o) == PinToCurrentCore(t, o)

\* Drop for CpuPinGuard
CpuPinGuardDrop(t, pinned_core, ok) ==
  IF IsSome(pinned_core) THEN Unpin(t, ok).thread ELSE t

\* some sched_getaffinity or sched_setaffinity call of o failed
PinFault(o) ==
  \/ IsSome(o.cpu) /\ (~o.save1 \/ ~o.set1)
  \/ (~IsSome(o.cpu) \/ ~o.set1) /\ o.cores /\ (~o.save2 \/ ~o.set2)

(***************************************************************************)
(* Statistics over a sample list: compute_result (utils/runner.rs),        *)
(* compute_variant_result and calculate_median (utils/timer.rs),           *)
(* calculate_std_dev and compute_stats (utils/bench.rs).                    *)
(*                                                                         *)
(* Samples are nanosecond counts.  The f64 arithmetic of the code is       *)
(* carried out exactly: a quotient is kept as numerator and denominator    *)
(* until the final truncation `as u64`.                                    *)
(***************************************************************************)
\* usize::min and usize::max
Min(a, b) == IF a < b THEN a ELSE b
Max(a, b) == IF a > b THEN a ELSE b

\* usize::saturating_sub
SaturatingSub(a, b) == IF a >= b THEN a - b ELSE 0

\* the values of a sequence
Range(s) == { s[i] : i \in DOMAIN s }

\* slice::sort: the non-decreasing arrangement of the values
Sort(s) ==
  [i \in 1..Len(s) |->
     CHOOSE v \in Range(s) :
       /\ Cardinality({ j \in DOMAIN s : s[j] < v }) < i
       /\ i <= Cardinality({ j \in DOMAIN s : s[j] <= v })]

\* iter().sum(), the slice summed by halves
RECURSIVE SumSeq(_)
SumSeq(s) ==
  IF Len(s) = 0 THEN 0
  ELSE IF Len(s) = 1 THEN s[1]
  ELSE SumSeq(SubSeq(s, 1, Len(s) \div 2))
         + SumSeq(SubSeq(s, (Len(s) \div 2) + 1, Len(s)))

\* the sum over the samples of diff * diff, diff = v - mean
SumSqDiff(s, mean) ==
  SumSeq([i \in DOMAIN s |-> (s[i] - mean) * (s[i] - mean)])

\* (num / den).sqrt() as u64: the largest k with k * k <= num / den
RECURSIVE SqrtFrom(_, _, _)
SqrtFrom(k, num, den) ==
  IF (k + 1) * (k + 1) * den > num THEN k ELSE SqrtFrom(k + 1, num, den)
SqrtTrunc(num, den) == SqrtFrom(0, num, den)

\* a trim count rounded down instead of up
TrimCount_Floor(len) == (len * 5) \div 1000

\* (nanos.len() as f64 * 0.005).ceil() as usize
TrimCount(len) == (len * 5 + 999) \div 1000

\* let start = trim_count.min(nanos.len() / 4);
TrimStart(len) == Min(TrimCount(len), len \div 4)

\* an end that keeps the upper tail
TrimEnd_KeepsTail(len) == len

\* let end = nanos.len().saturating_sub(trim_count).max(start + 1);
TrimEnd(len) == Max(SaturatingSub(len, TrimCount(len)), TrimStart(len) + 1)

\* the slice the statistics of compute_result are taken over:
\* &nanos[start..end] when filtering applies, &nanos[..] otherwise
Trimmed(nanos, filter_outliers) ==
  IF filter_outliers /\ Len(nanos) > 10
  THEN SubSeq(nanos, TrimStart(Len(nanos)) + 1, TrimEnd(Len(nanos)))
  ELSE nanos

\* the element slice[slice.len() / 2] of a sorted slice
MiddleOf(sorted) == sorted[(Len(sorted) \div 2) + 1]

\* the variance about an integer mean avg, its square root truncated:
\* sum of (v - avg)^2, divided by (len - 1).max(1), .sqrt() as u64
StdDevAboutAvg(s, avg) ==
  SqrtTrunc(SumSqDiff(s, avg), Max(Len(s) - 1, 1))

\* the same about the f64 mean sum / len: the sum of (v - sum/len)^2 is
\* (len * sum of v^2 - sum^2) / len
StdDevAboutMean(s) ==
  SqrtTrunc(Len(s) * SumSqDiff(s, 0) - SumSeq(s) * SumSeq(s),
            Len(s) * Max(Len(s) - 1, 1))

\* Duration::ZERO, in nanoseconds
DurationZERO == 0

\* the result returned on no samples; name, description and iterations are
\* handed through by every result and left out here
EmptyResult(result_sample) ==
  [avg_time |-> DurationZERO, median_time |-> DurationZERO,
   min_time |-> DurationZERO, max_time |-> DurationZERO,
   std_dev |-> DurationZERO, result_sample |-> result_sample]

\* compute_result
ComputeResult(values, result_sample, filter_outliers) ==
  IF values = << >> THEN EmptyResult(result_sample)
  ELSE LET nanos == Sort(values)
           trimmed == Trimmed(nanos, filter_outliers)
           min_val == trimmed[1]
           max_val == trimmed[Len(trimmed)]
           median_val == MiddleOf(trimmed)
           sum == SumSeq(trimmed)
           avg_val == sum \div Len(trimmed)
           std_dev_val == StdDevAboutAvg(trimmed, avg_val)
       IN [avg_time |-> avg_val, median_time |-> median_val,
           min_time |-> min_val, max_time |-> max_val,
           std_dev |-> std_dev_val, result_sample |-> result_sample]

\* a mean that is rounded up
MeanTrunc_Up(sum, len) == (sum + len - 1) \div len

\* (sum as f64 / len as f64) as u64
MeanTrunc(sum, len) == sum \div len

\* compute_variant_result; on no measurements the result sample is None
ComputeVariantResult(measurements, result_sample) ==
  IF measurements = << >> THEN EmptyResult(None)
  ELSE LET nanos == measurements
           sorted == Sort(nanos)
           min_ns == sorted[1]
           max_ns == sorted[Len(sorted)]
           median_ns == MiddleOf(sorted)
           sum == SumSeq(nanos)
           avg_ns == MeanTrunc(sum, Len(nanos))
           std_dev_ns == StdDevAboutMean(nanos)
       IN [avg_time |-> avg_ns, median_time |-> median_ns,
           min_time |-> min_ns, max_time |-> max_ns,
           std_dev |-> std_dev_ns, result_sample |-> result_sample]

\* calculate_median
CalculateMedian(times) ==
  IF times = << >> THEN DurationZERO ELSE MiddleOf(Sort(times))

\* calculate_std_dev
CalculateStdDev(times, mean) ==
  IF Len(times) < 2 THEN DurationZERO
  ELSE SqrtTrunc(SumSqDiff(times, mean), Len(times) - 1)

\* an aggregate that reports one nanosecond for no samples
ComputeStats_Floor(times) ==
  IF times = << >> THEN << 1, 1, 1, 1 >>
  ELSE << SumSeq(times) \div Len(times), Sort(times)[1],
          Sort(times)[Len(times)],
          CalculateStdDev(times, SumSeq(times) \div Len(times)) >>

\* compute_stats: (avg, min, max, std_dev)
ComputeStats(times) ==
  IF times = << >>
  THEN << DurationZERO, DurationZERO, DurationZERO, DurationZERO >>
  ELSE LET min == CHOOSE v \in Range(times) : \A w \in Range(times) : v <= w
           max == CHOOSE v \in Range(times) : \A w \in Range(times) : v >= w
           total == SumSeq(times)
           avg == total \div Len(times)
           std_dev == CalculateStdDev(times, avg)
       IN << avg, min, max, std_dev >>

(***************************************************************************)
(* The cycle-counter backend: elapsed (utils/bench.rs) and measure_cycles  *)
(* (utils/cycles.rs).  Counter values are u64, kept as byte sequences.     *)
(***************************************************************************)
\* a < b on u64: the most significant byte that differs decides
U64Less(a, b) ==
  \E k \in 1..U64Bytes :
    /\ a[k] < b[k]
    /\ \A j \in (k + 1)..U64Bytes : a[j] = b[j]

\* u64::wrapping_sub: byte by byte with borrow
WrappingSub(a, b) ==
  LET borrow[k \in 0..U64Bytes] ==
        IF k = 0 THEN 0
        ELSE IF a[k] - b[k] - borrow[k - 1] < 0 THEN 1 ELSE 0
  IN [k \in 1..U64Bytes |-> (a[k] - b[k] - borrow[k - 1] + 256) % 256]

\* a subtraction that wraps around below zero
SaturatingSubU64_Wrapping(a, b) == WrappingSub(a, b)

\* u64::saturating_sub
SaturatingSubU64(a, b) == IF U64Less(a, b) THEN U64Of(0) ELSE WrappingSub(a, b)

\* elapsed(start) once read_cycles() has returned current
Elapsed(current, start) == SaturatingSubU64(current, start)

\* what read_cycles() can return: 0, 1, 255, 256, 1000, 2^32 - 1, 2^32,
\* 2^63, 2^64 - 1
CounterValues ==
  { U64Of(0), U64Of(1), U64Of(255), U64Of(256), U64Of(1000),
    << 255, 255, 255, 255, 0, 0, 0, 0 >>, << 0, 0, 0, 0, 1, 0, 0, 0 >>,
    << 0, 0, 0, 0, 0, 0, 0, 128 >>,
    << 255, 255, 255, 255, 255, 255, 255, 255 >> }

(***************************************************************************)
(* Inputs                                                                  *)
(***************************************************************************)
\* seeds a caller can supply
Seeds == { U64Of(0), U64Of(12345) }
\* values of time_seed(): nanoseconds since the epoch
TimeSeeds == { << 21, 141, 5, 108, 191, 202, 227, 24 >>,
               << 77, 3, 150, 108, 191, 202, 227, 24 >> }
SeedArgs == { None } \cup { Some(s) : s \in Seeds }
\* the algorithms and the input sizes a caller passes: algo.name() and
\* input_sizes, by index
Algorithms == << "dot_product", "xoroshiro" >>
InputSizes == << 100, 1000 >>
\* elements of the slices handed to shuffle directly
Elems == { "a", "b" }
Slices == UNION { [1..n -> Elems] : n \in 0..MaxSliceLen }

VARIABLES
  sched,    \* the scheduler, two independent runs of it
  thread,   \* the benchmarking thread: affinity mask and ORIGINAL_AFFINITY
  guards,   \* the CpuPinGuards alive, innermost last
  dropped,  \* the guard dropped by the last step, if that step dropped one
  mask0,    \* the affinity mask the thread started with
  oserr     \* some affinity system call has failed so far

VARIABLES
  entry,           \* the function called: run_benchmarks or measure_variants
  args,            \* what the caller passed
  pc,              \* where the call stands
  config,          \* the TimingConfig in force
  effective_seed,  \* the seed handed to shuffle
  calls,           \* per closure, the number of times it has been invoked
  tasks,           \* the task list
  rng,             \* the SeededRng of the shuffle
  si,              \* the index i of the shuffle loop
  done_tasks,      \* the number of tasks executed
  measurements,    \* per closure, the measurements recorded
  result_samples,  \* per closure, the stored result sample
  trace,           \* the invocations made by tasks, in order
  events,          \* guards acquired and released, tasks run, in order
  results          \* what the call has computed for its caller

affVars == << thread, guards, dropped, mask0, oserr >>
hVars == << entry, args, pc, config, effective_seed, calls, tasks, rng, si,
            done_tasks, measurements, result_samples, trace, events,
            results >>
vars == << sched, affVars, hVars >>
\* what a call that runs no tasks leaves alone, besides its own frame
taskVars == << config, effective_seed, calls, tasks, rng, si, done_tasks,
               measurements, result_samples, trace, events >>

\* the parts of the state a specification does not use stay as they are here
SchedIdle == sched = << >>
AffinityIdle ==
  /\ thread = [affinity |-> Cores, ORIGINAL_AFFINITY |-> None]
  /\ guards = << >>
  /\ dropped = None
  /\ mask0 = Cores
  /\ oserr = FALSE
\* the state of a call that runs no tasks
NoTasks ==
  /\ config = << >>
  /\ effective_seed = None
  /\ calls = << >>
  /\ tasks = << >>
  /\ rng = None
  /\ si = 0
  /\ done_tasks = 0
  /\ measurements = << >>
  /\ result_samples = << >>
  /\ trace = << >>
  /\ events = << >>
HarnessIdle ==
  /\ entry = "idle"
  /\ args = << >>
  /\ pc = "idle"
  /\ results = None
  /\ NoTasks

(***************************************************************************)
(* verify() of the integer payloads: XoroshiroRunner::verify               *)
(* (random/xoroshiro/mod.rs) and the two verify_all                        *)
(* (control_flow/*/test/mod.rs).                                           *)
(*                                                                         *)
(* A variant function is opaque: it is the table of what it returns on     *)
(* each input of the fixed input sequence, in sequence order.  For         *)
(* xoroshiro the k-th input is the k-th call on the state the variant has  *)
(* itself advanced from the fixed seed.                                    *)
(***************************************************************************)
\* the length of the fixed input sequence
MaxInputs == 2
Inputs == 1..MaxInputs
\* what a variant function can return
Outputs == { 0, 1 }
FunctionTables == [Inputs -> Outputs]

VariantInfo(name, function) == [name |-> name, function |-> function]

\* the names available_variants() of xoroshiro registers, in order
XoroshiroNames(x86_64, c_impl) ==
  << "original" >>
    \o (IF x86_64 THEN << "x86_64-asm" >> ELSE << >>)
    \o (IF c_impl THEN << "c-original" >> ELSE << >>)

\* the names get_variants() of call_vs_branch registers, in order
CallVsBranchNames(x86_64) ==
  << "original" >>
    \o (IF x86_64
        THEN << "x86_64-asm-call", "x86_64-asm-branch", "x86_64-asm-inline" >>
        ELSE << >>)

\* the names get_variants() of elseif_vs_jumptable registers, in order
ElseifVsJumptableNames(x86_64, c_impl) ==
  << "original" >>
    \o (IF x86_64
        THEN << "x86_64-asm-branch", "x86_64-asm-jumptable",
                "x86_64-asm-branchless" >>
        ELSE << >>)
    \o (IF c_impl THEN << "c-elseif", "c-switch" >> ELSE << >>)

\* the registries with these names, over all function tables
Registries(names) ==
  { [k \in DOMAIN names |-> VariantInfo(names[k], t[k])] :
      t \in [DOMAIN names -> FunctionTables] }

\* Result<(), String>; an Err of the loop carries what its message names
Ok == [ok |-> TRUE]
Err(e) == [ok |-> FALSE, err |-> e]
Mismatch(name, input, expected, actual) ==
  [variant |-> name, input |-> input, expected |-> expected,
   actual |-> actual]

\* a loop that goes on after a mismatch and reports the last one
RECURSIVE VerifyLoop_LastMismatch(_, _, _, _, _, _)
VerifyLoop_LastMismatch(variants, expected, v, i, evals, ret) ==
  IF v > Len(variants) THEN [ret |-> ret, evals |-> evals]
  ELSE IF variants[v].name = "original" \/ i > Len(expected)
  THEN VerifyLoop_LastMismatch(variants, expected, v + 1, 1, evals, ret)
  ELSE LET actual == variants[v].function[i]
       IN VerifyLoop_LastMismatch(
            variants, expected, v, i + 1, Append(evals, << v, i >>),
            IF actual # expected[i]
            THEN Err(Mismatch(variants[v].name, i, expected[i], actual))
            ELSE ret)

\* the two nested loops of verify: variants in registry order skipping
\* "original", inputs in sequence order, return at the first difference;
\* evals lists the evaluations of variant functions made
RECURSIVE VerifyLoop(_, _, _, _, _, _)
VerifyLoop(variants, expected, v, i, evals, ret) ==
  IF v > Len(variants) THEN [ret |-> ret, evals |-> evals]
  ELSE IF variants[v].name = "original" \/ i > Len(expected)
  THEN VerifyLoop(variants, expected, v + 1, 1, evals, ret)
  ELSE LET actual == variants[v].function[i]
       IN IF actual # expected[i]
          THEN [ret |-> Err(Mismatch(variants[v].name, i, expected[i],
                                     actual)),
                evals |-> Append(evals, << v, i >>)]
          ELSE VerifyLoop(variants, expected, v, i + 1,
                          Append(evals, << v, i >>), ret)

\* XoroshiroRunner::verify: the reference is the first variant named
\* "original", its outputs are collected first
XoroshiroVerify(variants) ==
  LET originals == { v \in DOMAIN variants : variants[v].name = "original" }
  IN IF originals = { }
     THEN [ret |-> Err("No 'original' variant found for reference"),
           evals |-> << >>]
     ELSE LET original_variant ==
                variants[CHOOSE v \in originals : \A w \in originals : v <= w]
              expected_sequence == original_variant.function
          IN VerifyLoop(variants, expected_sequence, 1, 1, << >>, Ok)

\* verify_all of call_vs_branch: the reference is original::process_with_calls
CallVsBranchVerifyAll(variants, process_with_calls) ==
  VerifyLoop(variants, process_with_calls, 1, 1, << >>, Ok)

\* verify_all of elseif_vs_jumptable: the reference is
\* original::dispatch_operation
ElseifVsJumptableVerifyAll(variants, dispatch_operation) ==
  VerifyLoop(variants, dispatch_operation, 1, 1, << >>, Ok)

VerifyEntries ==
  { "xoroshiro::verify", "call_vs_branch::verify_all",
    "elseif_vs_jumptable::verify_all" }

\* a payload's verify() is about to be called on the registry of a build:
\* with or without the x86_64 variants, with or without the C ones
VerifyInit ==
  /\ SchedIdle
  /\ AffinityIdle
  /\ NoTasks
  /\ pc = "start"
  /\ results = None
  /\ \E x86_64 \in BOOLEAN, c_impl \in BOOLEAN :
       \/ /\ entry = "xoroshiro::verify"
          /\ args \in [variants : Registries(XoroshiroNames(x86_64, c_impl))]
       \/ /\ entry = "call_vs_branch::verify_all"
          /\ args \in [variants : Registries(CallVsBranchNames(x86_64))]
       \/ /\ entry = "elseif_vs_jumptable::verify_all"
          /\ args \in [variants :
                         Registries(ElseifVsJumptableNames(x86_64, c_impl))]

XoroshiroVerifyCall ==
  /\ entry = "xoroshiro::verify" /\ pc = "start"
  /\ results' = Some(XoroshiroVerify(args.variants))
  /\ pc' = "returned"
  /\ UNCHANGED << sched, affVars, entry, args, taskVars >>

\* get_variants() registers original::process_with_calls first
CallVsBranchVerifyCall ==
  /\ entry = "call_vs_branch::verify_all" /\ pc = "start"
  /\ results' = Some(CallVsBranchVerifyAll(args.variants,
                                           args.variants[1].function))
  /\ pc' = "returned"
  /\ UNCHANGED << sched, affVars, entry, args, taskVars >>

\* get_variants() registers original::dispatch_operation first
ElseifVsJumptableVerifyCall ==
  /\ entry = "elseif_vs_jumptable::verify_all" /\ pc = "start"
  /\ results' = Some(ElseifVsJumptableVerifyAll(args.variants,
                                                args.variants[1].function))
  /\ pc' = "returned"
  /\ UNCHANGED << sched, affVars, entry, args, taskVars >>

VerifyNext ==
  \/ XoroshiroVerifyCall
  \/ CallVsBranchVerifyCall
  \/ ElseifVsJumptableVerifyCall

SpecVerify == VerifyInit /\ [][VerifyNext]_vars

\* the evaluations (variant, input) in the order verify() makes them
EvalBefore(p, q) == p[1] < q[1] \/ (p[1] = q[1] /\ p[2] < q[2])

\* the outputs of the variant named "original"
ReferenceOf(variants) ==
  (CHOOSE v \in Range(variants) : v.name = "original").function

\* the (variant, input) on which a non-reference variant differs from it
Mismatches(variants) ==
  { p \in (DOMAIN variants) \X Inputs :
      /\ variants[p[1]].name # "original"
      /\ variants[p[1]].function[p[2]] # ReferenceOf(variants)[p[2]] }

\* C12: verify() returns Ok exactly when no non-reference variant differs
\* from "original" on any input; otherwise it returns the Err of the first
\* difference in (registration, sequence) order, naming the variant, the
\* input, the expected and the actual value, and has evaluated the variants
\* on nothing that comes after it.
C12_VerifyFailFast ==
  (entry \in VerifyEntries /\ pc = "returned") =>
    LET variants == args.variants
        ms == Mismatches(variants)
        r == Unwrap(results)
        tested == { p \in (DOMAIN variants) \X Inputs :
                      variants[p[1]].name # "original" }
    IN /\ r.ret.ok <=> ms = { }
       /\ ms = { } =>
            /\ Range(r.evals) = tested
            /\ Len(r.evals) = Cardinality(tested)
       /\ ms # { } =>
            LET first == CHOOSE p \in ms :
                           \A q \in ms : p = q \/ EvalBefore(p, q)
            IN /\ r.ret.err =
                    [variant |-> variants[first[1]].name,
                     input |-> first[2],
                     expected |-> ReferenceOf(variants)[first[2]],
                     actual |-> variants[first[1]].function[first[2]]]
               /\ Range(r.evals) =
                    { p \in tested : p = first \/ EvalBefore(p, first) }
               /\ r.evals[Len(r.evals)] = first

\* the second registered variant agrees on the first input and differs on
\* the second, and a later variant differs too
C12_Witness ==
  /\ entry = "elseif_vs_jumptable::verify_all"
  /\ pc = "returned"
  /\ Len(args.variants) = 6
  /\ ~Unwrap(results).ret.ok
  /\ Unwrap(results).ret.err.variant = "x86_64-asm-branch"
  /\ Unwrap(results).ret.err.input = 2
  /\ << 3, 1 >> \in Mismatches(args.variants)

(***************************************************************************)
(* The statistics functions, each called once on a sample list.            *)
(***************************************************************************)
\* how many samples of one value a list holds at most
MaxPerValue == 5
\* sample values, in nanoseconds
SampleValues == { 100, 101, 150, 200 }

\* k samples of value v
Block(v, k) == [i \in 1..k |-> v]

\* the orders the values of a list come in: rising, falling, mixed
BlockOrders ==
  { << 100, 101, 150, 200 >>, << 200, 150, 101, 100 >>,
    << 150, 100, 200, 101 >> }

\* the list that holds count[v] samples of v, the values in the order o
RECURSIVE BlockList(_, _)
BlockList(o, count) ==
  IF o = << >> THEN << >>
  ELSE Block(Head(o), count[Head(o)]) \o BlockList(Tail(o), count)

\* the sample lists the functions are called on: unsorted in general
SampleLists ==
  { BlockList(o, count) :
      o \in BlockOrders, count \in [SampleValues -> 0..MaxPerValue] }

\* 1000 samples, the 5 smallest and the 5 largest far from the others
ThousandSamples ==
  Block(200, 495) \o Block(1, 5) \o Block(1000, 5) \o Block(100, 495)

StatsEntries ==
  { "compute_result", "compute_variant_result", "calculate_median",
    "calculate_std_dev", "compute_stats" }

StatsInit ==
  /\ SchedIdle
  /\ AffinityIdle
  /\ NoTasks
  /\ pc = "start"
  /\ results = None
  /\ \/ /\ entry = "compute_result"
        /\ args \in [times : SampleLists \cup { ThousandSamples },
                      filter_outliers : BOOLEAN]
     \/ /\ entry \in { "compute_variant_result", "calculate_median",
                       "compute_stats" }
        /\ args \in [times : SampleLists]
     \/ /\ entry = "calculate_std_dev"
        /\ \E times \in SampleLists :
             args = [times |-> times,
                     mean |-> IF times = << >> THEN DurationZERO
                              ELSE SumSeq(times) \div Len(times)]

ComputeResultCall ==
  /\ entry = "compute_result" /\ pc = "start"
  /\ results' = Some(ComputeResult(args.times, None, args.filter_outliers))
  /\ pc' = "returned"
  /\ UNCHANGED << sched, affVars, entry, args, taskVars >>

ComputeVariantResultCall ==
  /\ entry = "compute_variant_result" /\ pc = "start"
  /\ results' = Some(ComputeVariantResult(args.times, None))
  /\ pc' = "returned"
  /\ UNCHANGED << sched, affVars, entry, args, taskVars >>

CalculateMedianCall ==
  /\ entry = "calculate_median" /\ pc = "start"
  /\ results' = Some(CalculateMedian(args.times))
  /\ pc' = "returned"
  /\ UNCHANGED << sched, affVars, entry, args, taskVars >>

\* the mean is the Duration the caller has: a whole number of nanoseconds
CalculateStdDevCall ==
  /\ entry = "calculate_std_dev" /\ pc = "start"
  /\ results' = Some(CalculateStdDev(args.times, args.mean))
  /\ pc' = "returned"
  /\ UNCHANGED << sched, affVars, entry, args, taskVars >>

ComputeStatsCall ==
  /\ entry = "compute_stats" /\ pc = "start"
  /\ results' = Some(ComputeStats(args.times))
  /\ pc' = "returned"
  /\ UNCHANGED << sched, affVars, entry, args, taskVars >>

StatsNext ==
  \/ ComputeResultCall
  \/ ComputeVariantResultCall
  \/ CalculateMedianCall
  \/ CalculateStdDevCall
  \/ ComputeStatsCall

SpecStats == StatsInit /\ [][StatsNext]_vars

\* a statistics function has returned
StatsReturned == entry \in StatsEntries /\ pc = "returned"

\* C13: on an empty sample list compute_result, compute_variant_result and
\* compute_stats return zero for every statistic they report (compute_stats
\* reports no median), and so do calculate_median and calculate_std_dev.
C13_EmptyIsAllZero ==
  (StatsReturned /\ args.times = << >>) =>
    CASE entry \in { "compute_result", "compute_variant_result" } ->
           /\ Unwrap(results).avg_time = 0
           /\ Unwrap(results).median_time = 0
           /\ Unwrap(results).min_time = 0
           /\ Unwrap(results).max_time = 0
           /\ Unwrap(results).std_dev = 0
      [] entry = "compute_stats" -> Unwrap(results) = << 0, 0, 0, 0 >>
      [] OTHER -> Unwrap(results) = 0

C13_Witness ==
  /\ entry = "compute_stats"
  /\ pc = "returned"
  /\ args.times = << >>
  /\ Unwrap(results)[1] = 0

\* 0.5% of n rounded up: the least t with n <= 200 * t
HalfPercentUp(n) == CHOOSE t \in 0..n : 200 * (t - 1) < n /\ n <= 200 * t

\* the samples C14 says the statistics are taken over
Retained(times, filter_outliers) ==
  IF filter_outliers /\ Len(times) > 10
  THEN SubSeq(Sort(times), HalfPercentUp(Len(times)) + 1,
              Len(times) - HalfPercentUp(Len(times)))
  ELSE Sort(times)

\* C14: with filter_outliers set and n > 10 samples, compute_result reports
\* the statistics of the sorted samples without the first and the last
\* t = ceil(0.005 * n) of them, t is at most n/4 and a sample is left;
\* without the flag, or with n <= 10, it reports those of all the samples.
C14_SymmetricTrim ==
  (entry = "compute_result" /\ pc = "returned") =>
    LET n == Len(args.times)
        t == HalfPercentUp(n)
        kept == Retained(args.times, args.filter_outliers)
    IN /\ Unwrap(results) = ComputeResult(kept, None, FALSE)
       /\ IF args.filter_outliers /\ n > 10
          THEN 4 * t <= n /\ Len(kept) = n - 2 * t /\ Len(kept) >= 1
          ELSE Len(kept) = n

\* eleven samples, one low and one high value are trimmed away
C14_Witness ==
  /\ entry = "compute_result"
  /\ pc = "returned"
  /\ args.filter_outliers
  /\ Len(args.times) = 11
  /\ Unwrap(results).min_time > Sort(args.times)[1]
  /\ Unwrap(results).max_time < Sort(args.times)[11]

\* the middle element of a sorted list, the lower of the two middle ones
\* when the count is even (0-based index count/2 - 1)
LowerMiddle(sorted) == sorted[(Len(sorted) + 1) \div 2]

\* the median a statistics function has reported
ReportedMedian ==
  IF entry = "calculate_median" THEN Unwrap(results)
  ELSE Unwrap(results).median_time

\* the sorted samples a statistics function has reported on
Kept ==
  IF entry = "compute_result"
  THEN Retained(args.times, args.filter_outliers)
  ELSE Sort(args.times)

\* C15: the median compute_result, compute_variant_result and
\* calculate_median report is the middle element of the sorted (trimmed)
\* samples, the lower-middle one for an even count.
C15_MedianLowerMiddle ==
  (/\ StatsReturned
   /\ entry \in { "compute_result", "compute_variant_result",
                  "calculate_median" }
   /\ args.times # << >>) =>
    ReportedMedian = LowerMiddle(Kept)

\* the smallest and the largest value of a list
Smallest(s) == CHOOSE v \in Range(s) : \A w \in Range(s) : v <= w
Largest(s) == CHOOSE v \in Range(s) : \A w \in Range(s) : v >= w

\* C16: on a non-empty list compute_result and compute_variant_result report
\* the smallest and the largest retained sample as min and max and the
\* integer part of sum / count as mean, so that min <= mean <= max and
\* min <= median <= max; [100, 150, 200] gives 150, 150, 100, 200.
C16_MinMaxMean ==
  (/\ StatsReturned
   /\ entry \in { "compute_result", "compute_variant_result" }
   /\ args.times # << >>) =>
    LET r == Unwrap(results)
        n == Len(Kept)
        sum == SumSeq(Kept)
    IN /\ r.min_time = Smallest(Kept)
       /\ r.max_time = Largest(Kept)
       /\ r.avg_time * n <= sum
       /\ sum < (r.avg_time + 1) * n
       /\ r.min_time <= r.avg_time /\ r.avg_time <= r.max_time
       /\ r.min_time <= r.median_time /\ r.median_time <= r.max_time
       /\ args.times = << 100, 150, 200 >> =>
            /\ r.avg_time = 150
            /\ r.median_time = 150
            /\ r.min_time = 100
            /\ r.max_time = 200

C16_Witness ==
  /\ entry = "compute_variant_result"
  /\ pc = "returned"
  /\ args.times = << 100, 150, 200 >>
  /\ Unwrap(results).avg_time = 150

\* the sample standard deviation of a list, truncated: the largest k with
\* k^2 * (N - 1) <= sum of (v - mean)^2, mean = sum / N exactly.  With
\* q and r the quotient and remainder of sum by N, that sum of squares is
\* (sum of (v - q)^2) - r^2 / N.
SampleStdDev(s) ==
  IF Len(s) <= 1 THEN 0
  ELSE LET N == Len(s)
           q == SumSeq(s) \div N
           r == SumSeq(s) % N
           num == SumSqDiff(s, q) - ((r * r + N - 1) \div N)
       IN CHOOSE k \in 0..(Largest(s) - Smallest(s)) :
            /\ k * k * (N - 1) <= num
            /\ (k + 1) * (k + 1) * (N - 1) > num

\* the standard deviation a statistics function has reported
ReportedStdDev ==
  CASE entry = "calculate_std_dev" -> Unwrap(results)
    [] entry = "compute_stats" -> Unwrap(results)[4]
    [] OTHER -> Unwrap(results).std_dev

\* C17: the standard deviation compute_result, compute_variant_result and
\* calculate_std_dev report is the truncated square root of the sum of
\* squared deviations from the arithmetic mean of the retained samples
\* divided by N - 1, and 0 for N <= 1; [100, 150, 200] gives 50.
C17_SampleStdDev ==
  (/\ StatsReturned
   /\ entry \in { "compute_result", "compute_variant_result",
                  "calculate_std_dev" }) =>
    /\ ReportedStdDev = SampleStdDev(Kept)
    /\ args.times = << 100, 150, 200 >> => ReportedStdDev = 50

\* C18: with more than 10 samples the median compute_result reports with
\* the filter is the one it reports without it; when the t = ceil(0.005 n)
\* smallest samples lie below all the others the filtered min is none of
\* them, and likewise for the t largest and the max; for the 1000 samples
\* with 5 outliers at each end the filtered min and max are 100 and 200.
C18_FilterKeepsMedian ==
  (/\ entry = "compute_result"
   /\ pc = "returned"
   /\ args.filter_outliers
   /\ Len(args.times) > 10) =>
    LET sorted == Sort(args.times)
        n == Len(args.times)
        t == HalfPercentUp(n)
        plain == ComputeResult(args.times, None, FALSE)
        r == Unwrap(results)
    IN /\ r.median_time = plain.median_time
       /\ sorted[t] < sorted[t + 1] =>
            (r.min_time > sorted[t] /\ r.min_time # plain.min_time)
       /\ sorted[n - t] < sorted[n - t + 1] =>
            (r.max_time < sorted[n - t + 1] /\ r.max_time # plain.max_time)
       /\ args.times = ThousandSamples =>
            (r.min_time = 100 /\ r.max_time = 200 /\ plain.min_time = 1
             /\ plain.max_time = 1000)

C18_Witness ==
  /\ entry = "compute_result"
  /\ pc = "returned"
  /\ args.filter_outliers
  /\ args.times = ThousandSamples
  /\ Unwrap(results).min_time = 100
  /\ Unwrap(results).max_time = 200
  /\ Unwrap(results).median_time = 200

(***************************************************************************)
(* One measurement with the cycle counter.  Two reads of the counter are   *)
(* not ordered: the second can return less than the first.                 *)
(***************************************************************************)
CyclesInit ==
  /\ SchedIdle
  /\ AffinityIdle
  /\ NoTasks
  /\ pc = "start"
  /\ results = None
  /\ \/ /\ entry = "elapsed"
        /\ args \in [start : CounterValues]
     \/ /\ entry = "measure_cycles"
        /\ args = << >>

\* elapsed(start): one read of the counter, then the subtraction
ElapsedCall ==
  /\ entry = "elapsed" /\ pc = "start"
  /\ \E current \in CounterValues :
       results' = Some([start |-> args.start, current |-> current,
                        elapsed |-> Elapsed(current, args.start)])
  /\ pc' = "returned"
  /\ UNCHANGED << sched, affVars, entry, args, taskVars >>

\* measure_cycles: let start = read_cycles(); the closure runs next
MeasureCyclesStart ==
  /\ entry = "measure_cycles" /\ pc = "start"
  /\ \E start \in CounterValues : results' = Some([start |-> start])
  /\ pc' = "running"
  /\ UNCHANGED << sched, affVars, entry, args, taskVars >>

\* measure_cycles: the closure has returned; let end = read_cycles(); and
\* the pair is returned
MeasureCyclesEnd ==
  /\ entry = "measure_cycles" /\ pc = "running"
  /\ \E end \in CounterValues :
       results' = Some([start |-> Unwrap(results).start, current |-> end,
                        elapsed |-> SaturatingSubU64(end,
                                                     Unwrap(results).start)])
  /\ pc' = "returned"
  /\ UNCHANGED << sched, affVars, entry, args, taskVars >>

CyclesNext ==
  \/ ElapsedCall
  \/ MeasureCyclesStart
  \/ MeasureCyclesEnd

SpecCycles == CyclesInit /\ [][CyclesNext]_vars

\* C19: elapsed(start) and measure_cycles return current - start when the
\* counter read is at least start (the result added to start gives the
\* read back, and is not above it) and 0 when the read is below start.
C19_ElapsedSaturates ==
  (entry \in { "elapsed", "measure_cycles" } /\ pc = "returned") =>
    LET r == Unwrap(results)
    IN IF U64Less(r.current, r.start)
       THEN r.elapsed = U64Of(0)
       ELSE /\ WrappingAdd(r.elapsed, r.start) = r.current
            /\ ~U64Less(r.current, r.elapsed)

\* the counter has gone backward between the two reads of measure_cycles
C19_Witness ==
  /\ entry = "measure_cycles"
  /\ pc = "returned"
  /\ Unwrap(results).start = << 0, 0, 0, 0, 1, 0, 0, 0 >>
  /\ Unwrap(results).current = << 255, 255, 255, 255, 0, 0, 0, 0 >>
  /\ Unwrap(results).elapsed = U64Of(0)

(***************************************************************************)
(* The command line of micro-algo: main (bin/all.rs).  args is argv        *)
(* without the program name, so that args[i] is the args[i] of the code.   *)
(* The local variables of main are the fields of `results`.                *)
(***************************************************************************)
MaxArgs == 2

\* the argument strings used here, each with its characters
Chars ==
  [t \in { "--sizes", "-r", "--pin", "--seed", "--csv", "-l", "-h", "-f",
           "--bogus", "dot_product", "nope", "7", "0", "-5", "x", "+3",
           "7,x", "x,y", " 7 ,8", "global", "per-call", "warp" } |->
     CASE t = "--sizes" -> << "-", "-", "s", "i", "z", "e", "s" >>
       [] t = "-r" -> << "-", "r" >>
       [] t = "--pin" -> << "-", "-", "p", "i", "n" >>
       [] t = "--seed" -> << "-", "-", "s", "e", "e", "d" >>
       [] t = "--csv" -> << "-", "-", "c", "s", "v" >>
       [] t = "-l" -> << "-", "l" >>
       [] t = "-h" -> << "-", "h" >>
       [] t = "-f" -> << "-", "f" >>
       [] t = "--bogus" -> << "-", "-", "b", "o", "g", "u", "s" >>
       [] t = "dot_product" ->
            << "d", "o", "t", "_", "p", "r", "o", "d", "u", "c", "t" >>
       [] t = "nope" -> << "n", "o", "p", "e" >>
       [] t = "7" -> << "7" >>
       [] t = "0" -> << "0" >>
       [] t = "-5" -> << "-", "5" >>
       [] t = "x" -> << "x" >>
       [] t = "+3" -> << "+", "3" >>
       [] t = "7,x" -> << "7", ",", "x" >>
       [] t = "x,y" -> << "x", ",", "y" >>
       [] t = " 7 ,8" -> << " ", "7", " ", ",", "8" >>
       [] t = "global" -> << "g", "l", "o", "b", "a", "l" >>
       [] t = "per-call" -> << "p", "e", "r", "-", "c", "a", "l", "l" >>
       [] t = "warp" -> << "w", "a", "r", "p" >>]

\* str::parse::<usize>: an optional '+', then one digit or more and
\* nothing else (values that overflow a usize are not among the inputs)
ParseUsize(chars) ==
  LET digits == << "0", "1", "2", "3", "4", "5", "6", "7", "8", "9" >>
      body == IF chars # << >> /\ chars[1] = "+" THEN Tail(chars) ELSE chars
      value(c) == (CHOOSE d \in DOMAIN digits : digits[d] = c) - 1
      pow10 == << 1, 10, 100, 1000, 10000, 100000 >>
  IN IF body = << >> \/ \E k \in DOMAIN body : body[k] \notin Range(digits)
     THEN None
     ELSE Some(SumSeq([k \in DOMAIN body |->
                         value(body[k]) * pow10[Len(body) - k + 1]]))

\* split(','): the pieces between the commas, in order
SplitComma(chars) ==
  LET commas == { k \in DOMAIN chars : chars[k] = "," }
      nth(j) == IF j = 0 THEN 0
                ELSE IF j > Cardinality(commas) THEN Len(chars) + 1
                ELSE CHOOSE k \in commas :
                       Cardinality({ q \in commas : q < k }) = j - 1
  IN [j \in 1..(Cardinality(commas) + 1) |->
        SubSeq(chars, nth(j - 1) + 1, nth(j) - 1)]

\* args[i].split(',').filter_map(|s| s.trim().parse().ok()).collect()
ParseSizes(chars) ==
  LET trim(piece) ==
        LET solid == { k \in DOMAIN piece : piece[k] # " " }
        IN IF solid = { } THEN << >>
           ELSE SubSeq(piece, CHOOSE k \in solid : \A q \in solid : k <= q,
                       CHOOSE k \in solid : \A q \in solid : q <= k)
      parsed == [j \in DOMAIN SplitComma(chars) |->
                   ParseUsize(trim(SplitComma(chars)[j]))]
      kept == SelectSeq(parsed, IsSome)
  IN [j \in DOMAIN kept |-> Unwrap(kept[j])]

\* main is started with its arguments; lines 18-28
MainInit ==
  /\ SchedIdle
  /\ AffinityIdle
  /\ NoTasks
  /\ entry = "main"
  /\ args \in UNION { [1..n -> DOMAIN Chars] : n \in 0..MaxArgs }
  /\ pc = "parse"
  /\ results = Some([i |-> 1, show_list |-> FALSE, show_help |-> FALSE,
                     sample_sizes |-> << 64, 256, 1024, 4096, 16384 >>,
                     runs |-> 30, seed |-> None, csv_path |-> None,
                     algorithm_filter |-> None, filter_outliers |-> FALSE,
                     pin_strategy |-> "PerExecution"])

\* one iteration of the argument loop, lines 29-117; std::process::exit(1)
\* ends the process at once
MainParse ==
  /\ entry = "main" /\ pc = "parse"
  /\ LET m == Unwrap(results)
         i == m.i
         arg == args[i]
         has_value == i + 1 <= Len(args)
         exit_1 == pc' = "exit_1" /\ results' = results
         go_on(next) == /\ pc' = "parse"
                        /\ results' = Some([next EXCEPT !.i = @ + 1])
     IN /\ i <= Len(args)
        /\ CASE arg \in { "--list", "-l" } ->
                  go_on([m EXCEPT !.show_list = TRUE])
             [] arg \in { "--help", "-h" } ->
                  go_on([m EXCEPT !.show_help = TRUE])
             [] arg = "--sizes" ->
                  IF has_value /\ ParseSizes(Chars[args[i + 1]]) # << >>
                  THEN go_on([m EXCEPT
                                !.i = i + 1,
                                !.sample_sizes =
                                  ParseSizes(Chars[args[i + 1]])])
                  ELSE exit_1
             [] arg \in { "--iter", "--runs", "-r" } ->
                  IF /\ has_value
                     /\ IsSome(ParseUsize(Chars[args[i + 1]]))
                     /\ Unwrap(ParseUsize(Chars[args[i + 1]])) > 0
                  THEN go_on([m EXCEPT
                                !.i = i + 1,
                                !.runs =
                                  Unwrap(ParseUsize(Chars[args[i + 1]]))])
                  ELSE exit_1
             [] arg = "--seed" ->
                  IF has_value /\ IsSome(ParseUsize(Chars[args[i + 1]]))
                  THEN go_on([m EXCEPT
                                !.i = i + 1,
                                !.seed = ParseUsize(Chars[args[i + 1]])])
                  ELSE exit_1
             [] arg = "--csv" ->
                  IF has_value
                  THEN go_on([m EXCEPT !.i = i + 1,
                                       !.csv_path = Some(args[i + 1])])
                  ELSE exit_1
             [] arg \in { "--filter", "-f" } ->
                  go_on([m EXCEPT !.filter_outliers = TRUE])
             [] arg = "--pin" ->
                  IF has_value /\ args[i + 1] = "global"
                  THEN go_on([m EXCEPT !.i = i + 1,
                                       !.pin_strategy = "Global"])
                  ELSE IF has_value
                          /\ args[i + 1] \in { "per-call", "per-execution" }
                  THEN go_on([m EXCEPT !.i = i + 1,
                                       !.pin_strategy = "PerExecution"])
                  ELSE exit_1
             [] OTHER ->
                  IF Chars[arg][1] # "-"
                  THEN go_on([m EXCEPT !.algorithm_filter = Some(arg)])
                  ELSE exit_1
  /\ UNCHANGED << sched, affVars, entry, args, taskVars >>

\* the arguments are parsed, lines 119-170: help, list, or the call of
\* run_benchmarks with what was parsed
MainDispatch ==
  /\ entry = "main" /\ pc = "parse"
  /\ Unwrap(results).i > Len(args)
  /\ LET m == Unwrap(results)
     IN pc' = IF m.show_help THEN "help"
              ELSE IF m.show_list THEN "list"
              ELSE IF /\ IsSome(m.algorithm_filter)
                      /\ Unwrap(m.algorithm_filter) \notin Range(Algorithms)
              THEN "exit_1"
              ELSE "run_benchmarks"
  /\ UNCHANGED << sched, affVars, entry, args, results, taskVars >>

MainNext ==
  \/ MainParse
  \/ MainDispatch

SpecMain == MainInit /\ [][MainNext]_vars

\* args[k] is read by the loop as an option, not as the value of the
\* option before it
RECURSIVE ReadAsOption(_)
ReadAsOption(k) ==
  LET takes_value(t) == t \in { "--sizes", "-r", "--seed", "--csv", "--pin" }
  IN \/ k = 1
     \/ k >= 2 /\ ReadAsOption(k - 1) /\ ~takes_value(args[k - 1])
     \/ k >= 3 /\ ReadAsOption(k - 2) /\ takes_value(args[k - 2])

\* C23: when main calls run_benchmarks, every entry of every --sizes list
\* on the command line is numeric, every repetition count is a positive
\* integer and every pinning-strategy token is a known one.
C23_BadConfigRejected ==
  pc = "run_benchmarks" =>
    \A k \in 1..(Len(args) - 1) :
      ReadAsOption(k) =>
        /\ args[k] = "--sizes" =>
             \A j \in DOMAIN SplitComma(Chars[args[k + 1]]) :
               \E c \in DOMAIN SplitComma(Chars[args[k + 1]])[j] :
                 /\ SplitComma(Chars[args[k + 1]])[j][c] # " "
                 /\ \A d \in DOMAIN SplitComma(Chars[args[k + 1]])[j] :
                      SplitComma(Chars[args[k + 1]])[j][d] \in
                        { " ", "+", "0", "1", "2", "3", "4", "5", "6", "7",
                          "8", "9" }
        /\ args[k] = "-r" =>
             /\ IsSome(ParseUsize(Chars[args[k + 1]]))
             /\ Unwrap(ParseUsize(Chars[args[k + 1]])) > 0
        /\ args[k] = "--pin" =>
             args[k + 1] \in { "global", "per-call", "per-execution" }

(***************************************************************************)
(* The scheduler: task generation and Fisher-Yates shuffle, run twice      *)
(* side by side on the same arguments.                                     *)
(***************************************************************************)
Runs2 == { 1, 2 }

SchedInit ==
  /\ AffinityIdle
  /\ HarnessIdle
  /\ \/ \E n \in 0..MaxVariants, runs \in 0..MaxRuns, sd \in [Runs2 -> SeedArgs] :
          sched = [r \in Runs2 |->
                    [entry |-> "run_benchmarks", num_closures |-> n, runs |-> runs,
                     seed |-> sd[r], pc |-> "call", input |-> << >>,
                     slice |-> << >>, rng |-> U64Of(0), i |-> 0, draws |-> 0,
                     lastj |-> 0]]
     \/ \E sl \in Slices, sd \in [Runs2 -> Seeds] :
          sched = [r \in Runs2 |->
                    [entry |-> "shuffle", num_closures |-> 0, runs |-> 0,
                     seed |-> Some(sd[r]), pc |-> "call", input |-> sl,
                     slice |-> sl, rng |-> U64Of(0), i |-> 0, draws |-> 0,
                     lastj |-> 0]]

\* run_benchmarks up to the call of shuffle: the effective seed, the tasks
\* in generation order, SeededRng::new(seed)
SchedGenerate(r) ==
  /\ sched[r].pc = "call"
  /\ sched[r].entry = "run_benchmarks"
  /\ \E time \in TimeSeeds :
       LET list == GenerateTasks(sched[r].num_closures, sched[r].runs)
           seed == EffectiveSeed(sched[r].seed, time)
       IN sched' = [sched EXCEPT ![r] =
                     [@ EXCEPT !.pc = "loop", !.input = list, !.slice = list,
                               !.rng = SeededRngNew(seed), !.i = Len(list) - 1]]
  /\ UNCHANGED << affVars, hVars >>

\* shuffle(slice, seed) called on a slice of its own
SchedShuffleCall(r) ==
  /\ sched[r].pc = "call"
  /\ sched[r].entry = "shuffle"
  /\ sched' = [sched EXCEPT ![r] =
                 [@ EXCEPT !.pc = "loop", !.rng = SeededRngNew(Unwrap(sched[r].seed)),
                           !.i = Len(sched[r].slice) - 1]]
  /\ UNCHANGED << affVars, hVars >>

\* one iteration of the loop of shuffle_with_rng
SchedShuffleIter(r) ==
  /\ sched[r].pc = "loop"
  /\ sched[r].i >= 1
  /\ LET st == ShuffleStep(sched[r].slice, sched[r].rng, sched[r].i)
     IN sched' = [sched EXCEPT ![r] =
                   [@ EXCEPT !.slice = st.slice, !.rng = st.rng, !.lastj = st.j,
                             !.i = @ - 1, !.draws = @ + 1]]
  /\ UNCHANGED << affVars, hVars >>

\* the loop of shuffle_with_rng ends
SchedShuffleReturn(r) ==
  /\ sched[r].pc = "loop"
  /\ sched[r].i < 1
  /\ sched' = [sched EXCEPT ![r] = [@ EXCEPT !.pc = "done"]]
  /\ UNCHANGED << affVars, hVars >>

SchedNext ==
  \E r \in Runs2 :
    \/ SchedGenerate(r)
    \/ SchedShuffleCall(r)
    \/ SchedShuffleIter(r)
    \/ SchedShuffleReturn(r)

SpecSched == SchedInit /\ [][SchedNext]_vars

(***************************************************************************)
(* Properties of the scheduler                                             *)
(***************************************************************************)
\* number of positions of the sequence s holding e
Count(s, e) == Cardinality({ p \in DOMAIN s : s[p] = e })

\* s and t hold the same elements the same number of times
SameMultiset(s, t) ==
  /\ Len(s) = Len(t)
  /\ \A p \in DOMAIN s : Count(s, s[p]) = Count(t, s[p])

\* C1: the task list, before and after the shuffle, has variant_count *
\* repetitions entries, holds every pair (v, r) exactly once and so every
\* variant index exactly `repetitions` times.
C1_TaskCoverage ==
  \A r \in Runs2 :
    (sched[r].entry = "run_benchmarks" /\ sched[r].pc # "call") =>
      \A l \in { sched[r].input, sched[r].slice } :
        /\ Len(l) = sched[r].num_closures * sched[r].runs
        /\ \A v \in 0..(sched[r].num_closures - 1) :
             /\ \A k \in 0..(sched[r].runs - 1) : Count(l, << v, k >>) = 1
             /\ Cardinality({ p \in DOMAIN l : l[p][1] = v }) = sched[r].runs

C1_Witness ==
  \E r \in Runs2 :
    /\ sched[r].entry = "run_benchmarks" /\ sched[r].pc = "done"
    /\ sched[r].num_closures = 2 /\ sched[r].runs = 2
    /\ sched[r].slice # sched[r].input

\* C2: shuffle is a permutation: at every point of the loop and at its end
\* the slice has the length and the multiset of elements of the slice given.
C2_ShufflePermutation ==
  \A r \in Runs2 : SameMultiset(sched[r].input, sched[r].slice)

C2_Witness ==
  \E r \in Runs2 :
    /\ sched[r].entry = "shuffle" /\ sched[r].pc = "done"
    /\ sched[r].input = << "a", "a", "b" >>
    /\ sched[r].slice # sched[r].input

\* C3: two runs of the scheduler over the same (variant_count, repetitions),
\* both given the seed Some(s), end with the same task sequence, which is the
\* one SeededRng::new(s) produces: the clock plays no part.
C3_SeedDeterminism ==
  /\ \A r \in Runs2 :
       (sched[r].pc = "loop" /\ sched[r].draws = 0 /\ IsSome(sched[r].seed))
         => sched[r].rng = Unwrap(sched[r].seed)
  /\ ( /\ \A r \in Runs2 : sched[r].pc = "done" /\ IsSome(sched[r].seed)
       /\ sched[1].seed = sched[2].seed )
     => ( /\ sched[1].slice = sched[2].slice
          /\ sched[1].rng = sched[2].rng )

C3_Witness ==
  /\ \A r \in Runs2 : sched[r].entry = "run_benchmarks" /\ sched[r].pc = "done"
  /\ sched[1].seed = Some(U64Of(12345)) /\ sched[2].seed = sched[1].seed
  /\ sched[1].num_closures = 2 /\ sched[1].runs = 2
  /\ sched[1].slice = sched[2].slice
  /\ sched[1].slice # sched[1].input

(***************************************************************************)
(* CpuPinGuard on one thread: guards are created, nested or one after the  *)
(* other, and dropped innermost first.                                     *)
(***************************************************************************)
AffInit ==
  /\ SchedIdle
  /\ HarnessIdle
  /\ \E m \in InitialMasks :
       /\ thread = [affinity |-> m, ORIGINAL_AFFINITY |-> None]
       /\ mask0 = m
  /\ guards = << >>
  /\ dropped = None
  /\ oserr = FALSE

\* a guard with what was true when it was created: the mask before it, and
\* whether it has been the only guard alive ever since
GuardRec(pinned_core, before, alone) ==
  [pinned_core |-> pinned_core, before |-> before, alone |-> alone]

\* CpuPinGuard::new() on the thread, the new guard innermost
AcquireGuard ==
  /\ \E o \in PinOutcomes(thread) :
       LET new == CpuPinGuardNew(thread, o)
       IN /\ thread' = new.thread
          /\ guards' = Append([g \in DOMAIN guards |->
                                 [guards[g] EXCEPT !.alone = FALSE]],
                              GuardRec(new.ret, thread.affinity, guards = << >>))
          /\ oserr' = (oserr \/ PinFault(o))
  /\ dropped' = None
  /\ UNCHANGED mask0

\* let guard = CpuPinGuard::new();
GuardNew ==
  /\ Len(guards) < MaxGuards
  /\ AcquireGuard
  /\ UNCHANGED << sched, hVars >>

\* the restore call of a drop is made: the guard is pinned and the slot full
RestoreIssued(t, pinned_core) ==
  IsSome(pinned_core) /\ IsSome(t.ORIGINAL_AFFINITY)

\* the innermost guard is dropped
ReleaseGuard ==
  /\ guards # << >>
  /\ LET g == guards[Len(guards)]
         issued == RestoreIssued(thread, g.pinned_core)
     IN \E ok \in (IF issued THEN BOOLEAN ELSE { TRUE }) :
          /\ thread' = CpuPinGuardDrop(thread, g.pinned_core, ok)
          /\ dropped' = Some([guard |-> g, restore_failed |-> ~ok])
          /\ oserr' = (oserr \/ ~ok)
  /\ guards' = SubSeq(guards, 1, Len(guards) - 1)
  /\ UNCHANGED mask0

\* the innermost guard goes out of scope: end of block, early return or
\* unwinding, all of which run Drop
GuardDrop ==
  /\ ReleaseGuard
  /\ UNCHANGED << sched, hVars >>

AffNext ==
  \/ GuardNew
  \/ GuardDrop

SpecAffinity == AffInit /\ [][AffNext]_vars

\* C4: a guard that was the only one alive from its creation to its drop
\* leaves the thread with the affinity mask it had before the guard was
\* created, whatever the save and set calls of the pin returned (the call
\* that restores the mask, when it is made, having succeeded).
C4_GuardRestoresAffinity ==
  ( /\ IsSome(dropped)
    /\ Unwrap(dropped).guard.alone
    /\ ~Unwrap(dropped).restore_failed )
  => thread.affinity = Unwrap(dropped).guard.before

\* C5: with no system call failing, once every guard is dropped the thread
\* has the mask it started with, and after an inner guard is dropped under
\* a pinned outer guard the thread is still pinned to one core.
C5_GuardReentrant ==
  ~oserr =>
    /\ guards = << >> => thread.affinity = mask0
    /\ ( /\ IsSome(dropped) /\ guards # << >>
         /\ IsSome(guards[Len(guards)].pinned_core) )
       => Cardinality(thread.affinity) = 1

(***************************************************************************)
(* The variant execution harness: run_benchmarks (utils/runner.rs) and     *)
(* measure_variants (utils/timer.rs).                                      *)
(*                                                                         *)
(* A trial callable is opaque.  Here the n-th invocation of a closure      *)
(* returns n as its measurement and either no numeric result or Some(n),   *)
(* so that every value recorded tells which invocation returned it.        *)
(***************************************************************************)
\* warmup_iterations of the TimingConfig built by run_benchmarks
WarmupIterations == 10

PinStrategies == { "Global", "PerExecution" }

\* the csv_path a caller can pass
CsvPaths == { None, Some("results.csv") }

\* the TimingConfig run_benchmarks builds: the strategy is a literal there
RunBenchmarksConfig(runs) ==
  [runs_per_variant |-> runs, warmup_iterations |-> WarmupIterations,
   pin_strategy |-> "PerExecution"]

\* the index set of a Vec of length n
Indices(n) == 0..(n - 1)

\* variant.name of the k-th variant of a list of variants
VariantName(k) ==
  << "original", "scalar_opt", "x86_64-asm", "c-original" >>[k + 1]

\* what get_variant_closures returns for the algorithms and sizes of a
\* call that collects n closures: variants_of[a, s] variants for
\* algorithm a at size s
Layouts(n) ==
  { variants_of \in [Indices(Len(Algorithms)) \X Indices(Len(InputSizes))
                       -> 0..n] :
      variants_of[0, 0] + variants_of[0, 1] + variants_of[1, 0]
        + variants_of[1, 1] = n }

\* one algorithm with n variants at one size
OneTable(n) ==
  [cell \in Indices(Len(Algorithms)) \X Indices(Len(InputSizes)) |->
     IF cell = << 0, 0 >> THEN n ELSE 0]

\* collect_closures: the ClosureContext of every closure in push order,
\* algorithms outermost, then input sizes, then the variants
\* get_variant_closures returns
CollectClosures(variants_of) ==
  LET num_sizes == Len(InputSizes)
      cell(j) == << (j - 1) \div num_sizes, (j - 1) % num_sizes >>
      before(j) == SumSeq([i \in 1..(j - 1) |-> variants_of[cell(i)]])
      total == before(Len(Algorithms) * num_sizes + 1)
  IN [k \in Indices(total) |->
        LET j == CHOOSE j \in 1..(Len(Algorithms) * num_sizes) :
                   before(j) <= k /\ k < before(j + 1)
        IN [algo_idx |-> cell(j)[1], size_idx |-> cell(j)[2],
            input_size |-> InputSizes[cell(j)[2] + 1],
            name |-> VariantName(k - before(j))]]

HarnessInit ==
  /\ SchedIdle
  /\ \E m \in InitialMasks :
       /\ thread = [affinity |-> m, ORIGINAL_AFFINITY |-> None]
       /\ mask0 = m
  /\ guards = << >>
  /\ dropped = None
  /\ oserr = FALSE
  /\ \/ /\ entry = "run_benchmarks"
        /\ args \in [num_closures : 0..MaxVariants, runs : 0..MaxRuns,
                      seed : SeedArgs, pin_strategy : PinStrategies]
        /\ args.num_closures * args.runs <= MaxTasks
     \/ /\ entry = "measure_variants"
        /\ args \in [num_closures : 0..MaxVariants,
                      config : [runs_per_variant : 0..MaxRuns,
                                warmup_iterations : 0..MaxWarmup,
                                pin_strategy : PinStrategies]]
        /\ args.num_closures * args.config.runs_per_variant <= MaxTasks
  /\ pc = "start"
  /\ config = << >>
  /\ effective_seed = None
  /\ calls = << >>
  /\ tasks = << >>
  /\ rng = None
  /\ si = 0
  /\ done_tasks = 0
  /\ measurements = << >>
  /\ result_samples = << >>
  /\ trace = << >>
  /\ events = << >>
  /\ results = None

\* run_benchmarks, lines 67-81: the seed, the config, the closures, and the
\* early return when there is none
RunBenchmarksStart ==
  /\ entry = "run_benchmarks" /\ pc = "start"
  /\ \E time \in TimeSeeds :
       effective_seed' = Some(EffectiveSeed(args.seed, time))
  /\ config' = RunBenchmarksConfig(args.runs)
  /\ calls' = [c \in Indices(args.num_closures) |-> 0]
  /\ pc' = IF args.num_closures = 0 THEN "returned" ELSE "warmup"
  /\ UNCHANGED << sched, results, affVars, entry, args, tasks, rng, si, done_tasks,
                  measurements, result_samples, trace, events >>

\* measure_variants, lines 106-110: no variants, an empty Vec is returned;
\* the seed is the one time_seed() gives
MeasureVariantsStart ==
  /\ entry = "measure_variants" /\ pc = "start"
  /\ \E time \in TimeSeeds : effective_seed' = Some(time)
  /\ config' = args.config
  /\ calls' = [c \in Indices(args.num_closures) |-> 0]
  /\ pc' = IF args.num_closures = 0 THEN "returned" ELSE "warmup"
  /\ results' = IF args.num_closures = 0 THEN Some(<< >>) ELSE None
  /\ UNCHANGED << sched, affVars, entry, args, tasks, rng, si, done_tasks,
                  measurements, result_samples, trace, events >>

\* a warmup loop that runs one iteration too many
ToWarm_OneMore(cl, cfg) ==
  { c \in DOMAIN cl : cl[c] <= cfg.warmup_iterations }

\* the closures whose warmup loop has iterations left
ToWarm(cl, cfg) ==
  { c \in DOMAIN cl : cl[c] < cfg.warmup_iterations }

\* one iteration of the warmup loops: the next closure in order is invoked
\* and what it returns is dropped
WarmupCall ==
  /\ pc = "warmup"
  /\ ToWarm(calls, config) # { }
  /\ LET c == CHOOSE c \in ToWarm(calls, config) :
                 \A d \in ToWarm(calls, config) : c <= d
     IN calls' = [calls EXCEPT ![c] = @ + 1]
  /\ UNCHANGED << sched, results, affVars, entry, args, pc, config, effective_seed,
                  tasks, rng, si, done_tasks, measurements, result_samples,
                  trace, events >>

\* the task list in generation order and the generator of shuffle
HarnessGenerate ==
  /\ pc = "warmup"
  /\ ToWarm(calls, config) = { }
  /\ tasks' = GenerateTasks(Cardinality(DOMAIN calls), config.runs_per_variant)
  /\ rng' = Some(SeededRngNew(Unwrap(effective_seed)))
  /\ si' = Len(tasks') - 1
  /\ pc' = "shuffle"
  /\ UNCHANGED << sched, results, affVars, entry, args, config, effective_seed, calls,
                  done_tasks, measurements, result_samples, trace, events >>

\* one iteration of the loop of shuffle_with_rng on the task list
HarnessShuffleIter ==
  /\ pc = "shuffle"
  /\ si >= 1
  /\ LET st == ShuffleStep(tasks, Unwrap(rng), si)
     IN /\ tasks' = st.slice
        /\ rng' = Some(st.rng)
  /\ si' = si - 1
  /\ UNCHANGED << sched, results, affVars, entry, args, pc, config, effective_seed,
                  calls, done_tasks, measurements, result_samples, trace,
                  events >>

\* a dispatch with its arms exchanged
ExecutePath_Swapped(pin_strategy) ==
  IF pin_strategy = "Global" THEN "per_call_loop" ELSE "global_pin"

\* execute_tasks, match config.pin_strategy; measure_variants, the two
\* (config.pin_strategy == ..).then(CpuPinGuard::new)
ExecutePath(pin_strategy) ==
  IF pin_strategy = "Global" THEN "global_pin" ELSE "per_call_loop"

\* the shuffle returns; the storage of the execute phase is set up and the
\* execution strategy chosen
ExecuteTasks ==
  /\ pc = "shuffle"
  /\ si < 1
  /\ measurements' = [c \in DOMAIN calls |-> << >>]
  /\ result_samples' = [c \in DOMAIN calls |-> None]
  /\ pc' = ExecutePath(config.pin_strategy)
  /\ UNCHANGED << sched, results, affVars, entry, args, config, effective_seed, calls,
                  tasks, rng, si, done_tasks, trace, events >>

\* a push that always lands in the first list
PushMeasurement_First(ms, closure_idx, elapsed_time) ==
  [ms EXCEPT ![0] = Append(@, elapsed_time)]

\* measurements[closure_idx].push(elapsed_time)
PushMeasurement(ms, closure_idx, elapsed_time) ==
  [ms EXCEPT ![closure_idx] = Append(@, elapsed_time)]

\* runner.rs: if result.is_some() { result_samples[closure_idx] = result; }
StoreResultRunner(rs, closure_idx, result) ==
  IF IsSome(result) THEN [rs EXCEPT ![closure_idx] = result] ELSE rs

\* timer.rs: result_samples[variant_idx] = result;
StoreResultTimer(rs, variant_idx, result) ==
  [rs EXCEPT ![variant_idx] = result]

\* the closure a task names
TaskClosure(task) == task[1]

\* the body of the task loop between the guards: the closure of the next
\* task is invoked, its measurement pushed and its result stored
RunTask ==
  LET closure_idx == TaskClosure(tasks[done_tasks + 1])
      n == calls[closure_idx] + 1
  IN /\ calls' = [calls EXCEPT ![closure_idx] = n]
     /\ \E result \in { None, Some(n) } :
          /\ result_samples' =
               IF entry = "run_benchmarks"
               THEN StoreResultRunner(result_samples, closure_idx, result)
               ELSE StoreResultTimer(result_samples, closure_idx, result)
          /\ trace' = Append(trace, [closure_idx |-> closure_idx,
                                     elapsed |-> n, result |-> result])
     /\ measurements' = PushMeasurement(measurements, closure_idx, n)
     /\ events' = Append(events, "run")
     /\ done_tasks' = done_tasks + 1

\* Global: the one guard is created before the loop
GlobalPin ==
  /\ pc = "global_pin"
  /\ AcquireGuard
  /\ events' = Append(events, "acquire")
  /\ pc' = "global_loop"
  /\ UNCHANGED << sched, results, entry, args, config, effective_seed, calls, tasks,
                  rng, si, done_tasks, measurements, result_samples, trace >>

\* Global: one iteration of the task loop
GlobalTask ==
  /\ pc = "global_loop"
  /\ done_tasks < Len(tasks)
  /\ RunTask
  /\ UNCHANGED << sched, results, affVars, entry, args, pc, config, effective_seed,
                  tasks, rng, si >>

\* Global: the loop is over and the guard goes out of scope
GlobalRelease ==
  /\ pc = "global_loop"
  /\ done_tasks = Len(tasks)
  /\ ReleaseGuard
  /\ events' = Append(events, "release")
  /\ pc' = "done"
  /\ UNCHANGED << sched, results, entry, args, config, effective_seed, calls, tasks,
                  rng, si, done_tasks, measurements, result_samples, trace >>

\* PerExecution: the guard of the next task is created
PerCallPin ==
  /\ pc = "per_call_loop"
  /\ done_tasks < Len(tasks)
  /\ AcquireGuard
  /\ events' = Append(events, "acquire")
  /\ pc' = "per_call_run"
  /\ UNCHANGED << sched, results, entry, args, config, effective_seed, calls, tasks,
                  rng, si, done_tasks, measurements, result_samples, trace >>

\* PerExecution: the task runs under its guard
PerCallTask ==
  /\ pc = "per_call_run"
  /\ RunTask
  /\ pc' = "per_call_drop"
  /\ UNCHANGED << sched, results, affVars, entry, args, config, effective_seed,
                  tasks, rng, si >>

\* PerExecution: the iteration ends and its guard goes out of scope
PerCallDrop ==
  /\ pc = "per_call_drop"
  /\ ReleaseGuard
  /\ events' = Append(events, "release")
  /\ pc' = "per_call_loop"
  /\ UNCHANGED << sched, results, entry, args, config, effective_seed, calls, tasks,
                  rng, si, done_tasks, measurements, result_samples, trace >>

\* PerExecution: the loop is over
PerCallReturn ==
  /\ pc = "per_call_loop"
  /\ done_tasks = Len(tasks)
  /\ pc' = "done"
  /\ UNCHANGED << sched, results, affVars, entry, args, config, effective_seed, calls,
                  tasks, rng, si, done_tasks, measurements, result_samples,
                  trace, events >>

\* a trial callable panics: the invocation is counted and returns nothing
PanicIn(closure_idx) ==
  /\ calls' = [calls EXCEPT ![closure_idx] = @ + 1]
  /\ pc' = "panicked"

\* a closure panics in its warmup loop; no guard is alive yet
WarmupPanic ==
  /\ pc = "warmup"
  /\ ToWarm(calls, config) # { }
  /\ PanicIn(CHOOSE c \in ToWarm(calls, config) :
               \A d \in ToWarm(calls, config) : c <= d)
  /\ events' = Append(events, "panic")
  /\ UNCHANGED << sched, results, affVars, entry, args, config,
                  effective_seed, tasks, rng, si, done_tasks, measurements,
                  result_samples, trace >>

\* Global: the closure of the next task panics; unwinding drops the one
\* guard and leaves the function
GlobalPanic ==
  /\ pc = "global_loop"
  /\ done_tasks < Len(tasks)
  /\ PanicIn(TaskClosure(tasks[done_tasks + 1]))
  /\ ReleaseGuard
  /\ events' = events \o << "panic", "release" >>
  /\ UNCHANGED << sched, results, entry, args, config, effective_seed, tasks,
                  rng, si, done_tasks, measurements, result_samples, trace >>

\* PerExecution: the closure of the task panics under its guard; unwinding
\* drops that guard and leaves the function
PerCallPanic ==
  /\ pc = "per_call_run"
  /\ PanicIn(TaskClosure(tasks[done_tasks + 1]))
  /\ ReleaseGuard
  /\ events' = events \o << "panic", "release" >>
  /\ UNCHANGED << sched, results, entry, args, config, effective_seed, tasks,
                  rng, si, done_tasks, measurements, result_samples, trace >>

\* the entry of raw_data made from a closure's context and result
RawTimingData(ctx, result) ==
  [algo_name |-> Algorithms[ctx.algo_idx + 1], variant_name |-> result.name,
   input_size |-> ctx.input_size, avg_nanos |-> result.avg_time,
   result_sample |-> result.result_sample]

\* a grouping that pushes every result into the first group
GroupOf_First(closures, results_of, a, s) ==
  IF a = 0 /\ s = 0
  THEN [i \in 1..Cardinality(DOMAIN closures) |-> results_of[i - 1]]
  ELSE << >>

\* grouped[a][s] after the loop of group_results: the results pushed for
\* the closures whose context is (a, s), in closure order
GroupOf(closures, results_of, a, s) ==
  LET members == { c \in DOMAIN closures :
                     closures[c].algo_idx = a /\ closures[c].size_idx = s }
  IN [i \in 1..Cardinality(members) |->
        results_of[CHOOSE c \in members :
                     Cardinality({ d \in members : d < c }) = i - 1]]

\* group_results: one compute_result per closure, in closure order, named
\* by the closure's context and pushed into the group of its context; the
\* caller's filter_outliers and the contexts made by collect_closures are
\* first used here; a call whose arguments do not spread the closures over
\* algorithms and sizes has one algorithm at one size
GroupResults ==
  /\ entry = "run_benchmarks" /\ pc = "done"
  /\ \E filter_outliers \in BOOLEAN :
       LET variants_of == IF "variants_of" \in DOMAIN args
                          THEN args.variants_of
                          ELSE OneTable(args.num_closures)
           closures == CollectClosures(variants_of)
           results_of == [c \in DOMAIN calls |->
                            [name |-> closures[c].name] @@
                            ComputeResult(measurements[c], result_samples[c],
                                          filter_outliers)]
       IN results' =
            Some([grouped |-> [a \in Indices(Len(Algorithms)) |->
                                 [s \in Indices(Len(InputSizes)) |->
                                    GroupOf(closures, results_of, a, s)]],
                  raw_data |-> [c \in DOMAIN calls |->
                                  RawTimingData(closures[c], results_of[c])],
                  csv |-> None])
  /\ pc' = "grouped"
  /\ UNCHANGED << sched, affVars, entry, args, config, effective_seed, calls,
                  tasks, rng, si, done_tasks, measurements, result_samples,
                  trace, events >>

\* export_csv: the lines written after the header, one writeln per entry
\* of data (the compiler column is a constant of the build, left out)
ExportCsvRows(data) ==
  [c \in DOMAIN data |->
     [algorithm |-> data[c].algo_name, variant |-> data[c].variant_name,
      input_size |-> data[c].input_size, avg_time_ns |-> data[c].avg_nanos,
      result |-> data[c].result_sample]]

\* if let Some(path) = csv_path { export_csv_with_message(..) }: with a
\* path the file is written or a warning printed, and the run goes on
\* either way; the caller's csv_path is first used here
ExportCsv ==
  /\ pc = "grouped"
  /\ \E csv_path \in CsvPaths :
       IF IsSome(csv_path)
       THEN \E written \in BOOLEAN :
              /\ events' = Append(events,
                                  IF written THEN "export"
                                  ELSE "export_failed")
              /\ results' =
                   IF written
                   THEN Some([Unwrap(results) EXCEPT
                                !.csv =
                                  Some(ExportCsvRows(Unwrap(results).raw_data))])
                   ELSE results
       ELSE events' = events /\ results' = results
  /\ pc' = "exported"
  /\ UNCHANGED << sched, affVars, entry, args, config,
                  effective_seed, calls, tasks, rng, si, done_tasks,
                  measurements, result_samples, trace >>

\* display_results: the timing table of the results is printed and
\* run_benchmarks returns
DisplayResults ==
  /\ pc = "exported"
  /\ events' = Append(events, "table")
  /\ pc' = "returned"
  /\ UNCHANGED << sched, results, affVars, entry, args, config,
                  effective_seed, calls, tasks, rng, si, done_tasks,
                  measurements, result_samples, trace >>

\* measure_variants, lines 142-148: one compute_variant_result per
\* variant, under the variant's name
MeasureVariantsReturn ==
  /\ entry = "measure_variants" /\ pc = "done"
  /\ results' = Some([c \in DOMAIN calls |->
                        [name |-> VariantName(c)] @@
                        ComputeVariantResult(measurements[c],
                                             result_samples[c])])
  /\ pc' = "returned"
  /\ UNCHANGED << sched, affVars, entry, args, config, effective_seed, calls,
                  tasks, rng, si, done_tasks, measurements, result_samples,
                  trace, events >>

Next ==
  \/ RunBenchmarksStart
  \/ MeasureVariantsStart
  \/ WarmupCall
  \/ HarnessGenerate
  \/ HarnessShuffleIter
  \/ ExecuteTasks
  \/ GlobalPin
  \/ GlobalTask
  \/ GlobalRelease
  \/ PerCallPin
  \/ PerCallTask
  \/ PerCallDrop
  \/ PerCallReturn

Spec == HarnessInit /\ [][Next]_vars

\* the harness to the end of the call: a trial callable returns or panics,
\* and a run that was not cut short reports
RunNext ==
  \/ RunBenchmarksStart
  \/ MeasureVariantsStart
  \/ WarmupCall
  \/ HarnessGenerate
  \/ HarnessShuffleIter
  \/ ExecuteTasks
  \/ GlobalPin
  \/ GlobalTask
  \/ GlobalRelease
  \/ PerCallPin
  \/ PerCallTask
  \/ PerCallDrop
  \/ PerCallReturn
  \/ WarmupPanic
  \/ GlobalPanic
  \/ PerCallPanic
  \/ GroupResults
  \/ ExportCsv
  \/ DisplayResults
  \/ MeasureVariantsReturn

SpecRun == HarnessInit /\ [][RunNext]_vars

\* the harness on a thread of a platform without per-core pinning: macos,
\* with its WAS_PINNED flag, or the fallback platform
NoPinInit ==
  /\ SchedIdle
  /\ \E m \in InitialMasks :
       /\ thread \in { [affinity |-> m, WAS_PINNED |-> FALSE],
                       [affinity |-> m] }
       /\ mask0 = m
  /\ guards = << >>
  /\ dropped = None
  /\ oserr = FALSE
  /\ \/ /\ entry = "run_benchmarks"
        /\ args \in [num_closures : 0..MaxVariants, runs : 0..MaxRuns,
                      seed : SeedArgs, pin_strategy : PinStrategies]
     \/ /\ entry = "measure_variants"
        /\ args \in [num_closures : 0..MaxVariants,
                      config : [runs_per_variant : 0..MaxRuns,
                                warmup_iterations : 0..MaxWarmup,
                                pin_strategy : PinStrategies]]
  /\ pc = "start"
  /\ results = None
  /\ NoTasks

SpecNoPin == NoPinInit /\ [][RunNext]_vars

\* the harness over every layout of algorithms, sizes and variants, on a
\* thread of the fallback platform, where the guards do nothing;
\* run_benchmarks is called with a seed and the strategy it uses anyway
GroupInit ==
  /\ SchedIdle
  /\ thread = [affinity |-> Cores]
  /\ mask0 = Cores
  /\ guards = << >>
  /\ dropped = None
  /\ oserr = FALSE
  /\ \/ /\ entry = "run_benchmarks"
        /\ \E n \in 0..MaxVariants :
             args \in [num_closures : { n }, runs : 0..MaxRuns,
                       seed : { Some(U64Of(12345)) },
                       pin_strategy : { "PerExecution" },
                       variants_of : Layouts(n)]
     \/ /\ entry = "measure_variants"
        /\ args \in [num_closures : 0..MaxVariants,
                      config : [runs_per_variant : 0..MaxRuns,
                                warmup_iterations : 0..MaxWarmup,
                                pin_strategy : PinStrategies]]
  /\ pc = "start"
  /\ results = None
  /\ NoTasks

SpecGroup == GroupInit /\ [][RunNext]_vars

\* the call has reached the execute phase or is past it
Executing ==
  pc \in { "global_pin", "global_loop", "per_call_loop", "per_call_run",
           "per_call_drop", "done" }

\* the invocations of closure c among those of the sequence tr, in order
TraceOf(tr, c) == SelectSeq(tr, LAMBDA e : e.closure_idx = c)

\* the measurements those invocations returned
ElapsedOf(tr, c) ==
  [i \in 1..Len(TraceOf(tr, c)) |-> TraceOf(tr, c)[i].elapsed]

\* the numeric result of the last invocation of c in tr that returned one
LastNumeric(tr, c) ==
  LET numeric == SelectSeq(TraceOf(tr, c), LAMBDA e : IsSome(e.result))
  IN IF numeric = << >> THEN None ELSE numeric[Len(numeric)].result

\* C6: in the execute phase the k-th invocation is of the closure the k-th
\* task names, every task executed has made exactly one invocation, the
\* measurements of a closure are those its own invocations returned, in
\* order, and at the end every closure has runs_per_variant of them.
C6_ExecuteInTaskOrder ==
  Executing =>
    /\ Len(trace) = done_tasks
    /\ \A k \in 1..Len(trace) : trace[k].closure_idx = tasks[k][1]
    /\ \A c \in DOMAIN calls :
         /\ measurements[c] = ElapsedOf(trace, c)
         /\ calls[c] = config.warmup_iterations + Len(TraceOf(trace, c))
         /\ pc = "done" => Len(measurements[c]) = config.runs_per_variant

C6_Witness ==
  /\ pc = "done"
  /\ Len(tasks) = 4
  /\ tasks[1][1] # tasks[2][1]
  /\ \A c \in DOMAIN calls : Len(measurements[c]) = 2

\* C7: no task runs and nothing is recorded while the warmup lasts; when
\* the first task starts every closure has been invoked exactly
\* warmup_iterations times; nothing a warmup invocation returned is in a
\* sample list or a stored result; at the end every closure has been
\* invoked warmup_iterations + runs_per_variant times.
C7_WarmupFirst ==
  /\ pc \in { "start", "warmup" } =>
       (trace = << >> /\ events = << >> /\ measurements = << >>)
  /\ (pc = "shuffle" \/ Executing) =>
       /\ \A c \in DOMAIN calls :
            /\ calls[c] >= config.warmup_iterations
            /\ done_tasks = 0 => calls[c] = config.warmup_iterations
            /\ pc = "done" =>
                 calls[c] = config.warmup_iterations + config.runs_per_variant
  /\ Executing =>
       \A c \in DOMAIN calls :
         /\ \A i \in 1..Len(measurements[c]) :
              measurements[c][i] > config.warmup_iterations
         /\ IsSome(result_samples[c]) =>
              Unwrap(result_samples[c]) > config.warmup_iterations

C7_Witness ==
  /\ entry = "run_benchmarks"
  /\ pc = "done"
  /\ Len(tasks) = 4
  /\ \A c \in DOMAIN calls : calls[c] = WarmupIterations + 2

\* what Global leaves in `events` after k tasks
GlobalEvents(k, released) ==
  << "acquire" >> \o [i \in 1..k |-> "run"]
     \o (IF released THEN << "release" >> ELSE << >>)

\* what PerExecution leaves in `events`, cut after n entries
PerCallEvents(n) ==
  [i \in 1..n |-> CASE i % 3 = 1 -> "acquire"
                    [] i % 3 = 2 -> "run"
                    [] OTHER -> "release"]

\* C8: under Global one guard is acquired before the first task and lives
\* until after the last one; under PerExecution every task runs inside a
\* guard of its own, released after the task is recorded and before the
\* next guard is acquired, so that as many guards are acquired as tasks run.
C8_PinningPatterns ==
  Executing =>
    IF config.pin_strategy = "Global"
    THEN /\ pc \in { "global_pin", "global_loop", "done" }
         /\ pc = "global_pin" =>
              (events = << >> /\ guards = << >> /\ done_tasks = 0)
         /\ pc = "global_loop" =>
              (events = GlobalEvents(done_tasks, FALSE) /\ Len(guards) = 1)
         /\ pc = "done" =>
              (events = GlobalEvents(Len(tasks), TRUE) /\ guards = << >>)
    ELSE /\ pc \in { "per_call_loop", "per_call_run", "per_call_drop", "done" }
         /\ pc = "per_call_loop" =>
              (events = PerCallEvents(3 * done_tasks) /\ guards = << >>)
         /\ pc = "per_call_run" =>
              (events = PerCallEvents(3 * done_tasks + 1) /\ Len(guards) = 1)
         /\ pc = "per_call_drop" =>
              /\ events = PerCallEvents(3 * done_tasks - 1)
              /\ Len(guards) = 1
              /\ Len(measurements[trace[done_tasks].closure_idx]) >= 1
         /\ pc = "done" =>
              (events = PerCallEvents(3 * Len(tasks)) /\ guards = << >>)

C8_Witness ==
  /\ pc = "done"
  /\ config.pin_strategy = "Global"
  /\ Len(tasks) = 4
  /\ events = << "acquire", "run", "run", "run", "run", "release" >>

\* C9: run_benchmarks executes its tasks under the strategy its caller
\* selected.
C9_PinStrategyFromCaller ==
  (entry = "run_benchmarks" /\ Executing /\ pc # "done") =>
    /\ args.pin_strategy = "Global" => pc \in { "global_pin", "global_loop" }
    /\ args.pin_strategy = "PerExecution" =>
         pc \in { "per_call_loop", "per_call_run", "per_call_drop" }

\* C10: the stored result sample of a closure is the numeric result of the
\* last of its tasks that returned one, and absent if none did.
C10_ResultSampleLastNumeric ==
  Executing =>
    \A c \in DOMAIN calls : result_samples[c] = LastNumeric(trace, c)

\* C11: every timing table a run prints comes after the outcome of verify()
\* has been produced and surfaced for the payload.
C11_VerifyBeforeTimingTable ==
  \A k \in 1..Len(events) :
    events[k] = "table" => \E j \in 1..(k - 1) : events[j] = "verify"

\* C20: after a panic of a trial callable the call is over without result:
\* nothing has been aggregated, exported or displayed; no guard is left
\* alive, and the guard that was alive at the panic has been dropped so that
\* the thread has the affinity mask it had before that guard (the call that
\* restores the mask, when it is made, having succeeded).
C20_PanicIsFatal ==
  pc = "panicked" =>
    /\ results = None
    /\ \A k \in DOMAIN events :
         events[k] \notin { "export", "export_failed", "table" }
    /\ guards = << >>
    /\ (IsSome(dropped) /\ ~Unwrap(dropped).restore_failed) =>
         thread.affinity = Unwrap(dropped).guard.before

\* C21: on macos and on the fallback platform every CpuPinGuard, alive or
\* just dropped, has pinned_core None (is_pinned() false, core_id() None)
\* and the affinity mask never changes; the step that drops a guard leaves
\* the thread and its thread-locals as they were (no unpin); and a call
\* that returns has executed every scheduled task and has its results, one
\* per closure.
C21_NoPinDegrades ==
  /\ [](/\ \A g \in DOMAIN guards : guards[g].pinned_core = None
        /\ IsSome(dropped) => Unwrap(dropped).guard.pinned_core = None
        /\ thread.affinity = mask0
        /\ (pc = "returned" /\ args.num_closures > 0) =>
             /\ Len(tasks) = args.num_closures * config.runs_per_variant
             /\ done_tasks = Len(tasks)
             /\ Len(trace) = Len(tasks)
             /\ \A c \in DOMAIN calls :
                  Len(measurements[c]) = config.runs_per_variant
             /\ IsSome(results)
             /\ DOMAIN (IF entry = "run_benchmarks"
                        THEN Unwrap(results).raw_data
                        ELSE Unwrap(results)) = DOMAIN calls)
  /\ [][IsSome(dropped') => thread' = thread]_vars

\* a macos run has returned its results after its tasks ran under guards
\* whose hint was set and never taken back
C21_Witness ==
  /\ pc = "returned"
  /\ done_tasks > 0
  /\ IsSome(dropped)
  /\ Platform(thread) = "macos"
  /\ thread.WAS_PINNED

MaxCalls == 3
MaxVecLen == 5

\* the bits of a u64, bit 0 first
Bits(x) ==
  [k \in 0..63 |->
     (x[(k \div 8) + 1] \div << 1, 2, 4, 8, 16, 32, 64, 128 >>[(k % 8) + 1]) % 2]

\* the u64 with the given bits
OfBits(b) ==
  [k \in 1..U64Bytes |->
     b[8 * k - 8] + 2 * b[8 * k - 7] + 4 * b[8 * k - 6] + 8 * b[8 * k - 5]
       + 16 * b[8 * k - 4] + 32 * b[8 * k - 3] + 64 * b[8 * k - 2]
       + 128 * b[8 * k - 1]]

\* u64::rotate_left, the rol instruction
RotateLeft(x, n) == OfBits([k \in 0..63 |-> Bits(x)[(k + 64 - n) % 64]])

\* <<, the shl instruction
Shl(x, n) == OfBits([k \in 0..63 |-> IF k >= n THEN Bits(x)[k - n] ELSE 0])

\* ^, the xor instruction
Xor(a, b) == OfBits([k \in 0..63 |-> (Bits(a)[k] + Bits(b)[k]) % 2])

\* xoroshiro_original on the state (seed_lo, seed_hi)
XoroshiroOriginal(seed_lo, seed_hi) ==
  LET s0 == seed_lo
      s1 == seed_hi
      result == WrappingAdd(RotateLeft(WrappingAdd(s0, s1), 17), s0)
      s1x == Xor(s1, s0)
  IN [result |-> result,
      seed_lo |-> Xor(Xor(RotateLeft(s0, 49), s1x), Shl(s1x, 21)),
      seed_hi |-> RotateLeft(s1x, 28)]

\* an assembly step whose last rotation is by 27
XoroshiroX8664Asm_Rol27(seed_lo_ptr, seed_hi_ptr) ==
  LET r == XoroshiroOriginal(seed_lo_ptr, seed_hi_ptr)
  IN [r EXCEPT !.seed_hi = RotateLeft(Xor(seed_hi_ptr, seed_lo_ptr), 27)]

\* xoroshiro_x86_64_asm: the instructions in order, each register named
\* after its operand and numbered by its successive values
XoroshiroX8664Asm(seed_lo_ptr, seed_hi_ptr) ==
  LET seed_lo0 == seed_lo_ptr
      seed_hi0 == seed_hi_ptr
      copy_seed_lo == seed_lo0                       \* mov
      copy_seed_hi == seed_hi0                       \* mov
      seed_hi1 == Xor(seed_hi0, copy_seed_lo)        \* xor
      rax0 == WrappingAdd(copy_seed_lo, copy_seed_hi) \* lea
      seed_lo1 == RotateLeft(seed_lo0, 49)           \* rol
      r8a == seed_hi1                                \* mov
      r8b == Shl(r8a, 21)                            \* shl
      rax1 == RotateLeft(rax0, 17)                   \* rol
      seed_lo2 == Xor(seed_lo1, seed_hi1)            \* xor
      rax2 == WrappingAdd(rax1, copy_seed_lo)        \* add
      seed_lo3 == Xor(seed_lo2, r8b)                 \* xor
      seed_hi2 == RotateLeft(seed_hi1, 28)           \* rol
  IN [result |-> rax2, seed_lo |-> seed_lo3, seed_hi |-> seed_hi2]

\* the low 32 bits: what a 32-bit register keeps of a result
AsU32(x) == [k \in 1..U64Bytes |-> IF k <= 4 THEN x[k] ELSE 0]

\* u32 arithmetic written with * and +: r is the exact result; with overflow
\* checks compiled in (debug and test profiles) a result that does not fit
\* panics, without them (release profile) it wraps
Checked(r, overflow_checks) ==
  IF overflow_checks /\ r # AsU32(r) THEN None ELSE Some(AsU32(r))

\* original::process_with_calls with its helpers double, add_ten, square
ProcessWithCalls(value, overflow_checks) ==
  LET double(x) == Checked(WrappingMul(x, U64Of(2)), overflow_checks)
      add_ten(x) == Checked(WrappingAdd(x, U64Of(10)), overflow_checks)
      square(x) == AsU32(WrappingMul(x, x))
      step1 == double(value)
      step2 == IF IsSome(step1) THEN add_ten(Unwrap(step1)) ELSE None
  IN IF IsSome(step2) THEN Some(square(Unwrap(step2))) ELSE None

\* x86_64_asm::process_with_calls: mov; call 20 (add val, val); call 30
\* (add val, 10); call 40 (imul val, val); jmp 99
AsmProcessWithCalls(value) ==
  LET val0 == value
      val1 == AsU32(WrappingAdd(val0, val0))
      val2 == AsU32(WrappingAdd(val1, U64Of(10)))
      val3 == AsU32(WrappingMul(val2, val2))
  IN Some(val3)

\* x86_64_asm::process_with_branch: the same three blocks reached with jmp
ProcessWithBranch(value) ==
  LET val0 == value
      val1 == AsU32(WrappingAdd(val0, val0))
      val2 == AsU32(WrappingAdd(val1, U64Of(10)))
      val3 == AsU32(WrappingMul(val2, val2))
  IN Some(val3)

\* x86_64_asm::process_inline: mov, add, add, imul
ProcessInline(value) ==
  LET val0 == value
      val1 == AsU32(WrappingAdd(val0, val0))
      val2 == AsU32(WrappingAdd(val1, U64Of(10)))
      val3 == AsU32(WrappingMul(val2, val2))
  IN Some(val3)

\* original::dispatch_operation
DispatchOperation(opcode, value, overflow_checks) ==
  IF opcode = 0 THEN Some(value)
  ELSE IF opcode \in 1..7
  THEN Checked(WrappingMul(value, U64Of(opcode + 1)), overflow_checks)
  ELSE Some(U64Of(0))

\* x86_64_asm::dispatch_branch: bounds check, then the compare chain; lea,
\* shl, add and sub work on 32-bit registers
DispatchBranch(opcode, value) ==
  LET opcode_ext == opcode
      lea(a, b, scale) == AsU32(WrappingAdd(a, WrappingMul(b, U64Of(scale))))
      shl(a, n) == AsU32(Shl(a, n))
  IN Some(IF opcode_ext > 7 THEN U64Of(0)                       \* ja 90f
          ELSE IF opcode_ext = 0 THEN value                     \* mov
          ELSE IF opcode_ext = 2 THEN lea(value, value, 2)      \* 30:
          ELSE IF opcode_ext = 3 THEN shl(value, 2)             \* 40:
          ELSE IF opcode_ext = 4 THEN lea(value, value, 4)      \* 50:
          ELSE IF opcode_ext = 5                                \* 60:
          THEN AsU32(WrappingAdd(lea(value, value, 2), lea(value, value, 2)))
          ELSE IF opcode_ext = 6                                \* 70:
          THEN AsU32(WrappingSub(shl(value, 3), value))
          ELSE IF opcode_ext = 7 THEN shl(value, 3)             \* 80:
          ELSE lea(value, value, 1))                            \* case 1

\* x86_64_asm::dispatch_jumptable: bounds check, then the handler the table
\* entry of the opcode points to
DispatchJumptable(opcode, value) ==
  LET opcode_ext == opcode
      lea(a, b, scale) == AsU32(WrappingAdd(a, WrappingMul(b, U64Of(scale))))
      shl(a, n) == AsU32(Shl(a, n))
      table == << 600, 602, 604, 606, 608, 620, 622, 624 >>
      handler(label) ==
        CASE label = 600 -> value
          [] label = 602 -> lea(value, value, 1)
          [] label = 604 -> lea(value, value, 2)
          [] label = 606 -> shl(value, 2)
          [] label = 608 -> lea(value, value, 4)
          [] label = 620 -> AsU32(WrappingAdd(lea(value, value, 2),
                                              lea(value, value, 2)))
          [] label = 622 -> AsU32(WrappingSub(shl(value, 3), value))
          [] label = 624 -> shl(value, 3)
  IN Some(IF opcode_ext > 7 THEN U64Of(0)                       \* ja 92f
          ELSE handler(table[opcode_ext + 1]))

\* x86_64_asm::dispatch_branchless: the index is clamped before the table is
\* read, the product is zeroed afterwards for an opcode above 7
DispatchBranchless(opcode, value) ==
  LET MULTIPLIERS == << 1, 2, 3, 4, 5, 6, 7, 8 >>
      opcode_ext == opcode
      idx == IF opcode_ext > 7 THEN 0 ELSE opcode_ext           \* cmova
      mult == U64Of(MULTIPLIERS[idx + 1])                       \* mov
      result0 == AsU32(WrappingMul(value, U64Of(1)))            \* imul
      result1 == AsU32(WrappingMul(result0, mult))              \* imul
  IN Some(IF opcode_ext > 7 THEN U64Of(0) ELSE result1)         \* cmova

\* dot_product_original; the elements are integers of small magnitude, on
\* which f32 multiplication and addition are exact
DotProductOriginal(a, b) ==
  IF Len(a) # Len(b) THEN None
  ELSE Some(SumSeq([i \in 1..Len(a) |-> a[i] * b[i]]))

\* a 4x unrolled loop that leaves the remaining elements out
DotProductScalarOpt_NoTail(a, b) ==
  IF Len(a) # Len(b) THEN None
  ELSE Some(SumSeq([i \in 1..(4 * (Len(a) \div 4)) |-> a[i] * b[i]]))

\* dot_product_scalar_opt; indices are the source's, from 0
DotProductScalarOpt(a, b) ==
  IF Len(a) # Len(b) THEN None
  ELSE LET len == Len(a)
           chunks == len \div 4
           remainder == len % 4
           at(idx) == a[idx + 1] * b[idx + 1]
           lane(k) == SumSeq([i \in 1..chunks |-> at((i - 1) * 4 + k)])
           base == chunks * 4
           sum0 == lane(0) + SumSeq([i \in 1..remainder |-> at(base + i - 1)])
           sum1 == lane(1)
           sum2 == lane(2)
           sum3 == lane(3)
       IN Some((sum0 + sum1) + (sum2 + sum3))

\* the inputs of the payloads
XoroshiroSeeds ==
  { << U64Of(1), U64Of(0) >>, << U64Of(0), U64Of(0) >>,
    << << 239, 190, 173, 222, 0, 0, 0, 0 >>,
       << 171, 235, 175, 12, 0, 0, 0, 0 >> >>,
    << << 120, 86, 52, 18, 0, 0, 0, 0 >>,
       << 33, 67, 101, 135, 0, 0, 0, 0 >> >>,
    << << 255, 255, 255, 255, 255, 255, 255, 255 >>,
       << 0, 0, 0, 0, 0, 0, 0, 128 >> >> }
\* u32 values: 0, 5, 10000, 2^31 - 5, 2^31, 2^32 - 1
ValuesU32 ==
  { U64Of(0), U64Of(5), U64Of(10000), << 251, 255, 255, 127, 0, 0, 0, 0 >>,
    << 0, 0, 0, 128, 0, 0, 0, 0 >>, << 255, 255, 255, 255, 0, 0, 0, 0 >> }
Opcodes == 0..8 \cup { 255 }
VecElems == { -3, 2 }
Vectors == UNION { [1..n -> VecElems] : n \in 0..MaxVecLen }
XoroshiroVariants == { "original", "x86_64-asm" }

\* a payload is about to be called; for xoroshiro every variant has its own
\* copy of the state, the outputs it has returned so far and the states it
\* was called on
PayloadInit ==
  /\ SchedIdle
  /\ AffinityIdle
  /\ NoTasks
  /\ pc = "call"
  /\ \/ /\ entry = "xoroshiro"
        /\ args \in [seed : XoroshiroSeeds]
        /\ results = Some([v \in XoroshiroVariants |->
                             [seed_lo |-> args.seed[1],
                              seed_hi |-> args.seed[2], out |-> << >>,
                              before |-> << >>]])
     \/ /\ entry = "call_vs_branch"
        /\ args \in [value : ValuesU32, overflow_checks : BOOLEAN]
        /\ results = None
     \/ /\ entry = "elseif_vs_jumptable"
        /\ args \in [opcode : Opcodes, value : ValuesU32,
                     overflow_checks : BOOLEAN]
        /\ results = None
     \/ /\ entry = "dot_product"
        /\ args \in [a : Vectors, b : Vectors]
                     \cup { [a |-> << 1, 2, 3, 4 >>, b |-> << 5, 6, 7, 8 >>] }
        /\ results = None

\* every xoroshiro variant is called once more on its own state
XoroshiroCall ==
  /\ entry = "xoroshiro" /\ pc = "call"
  /\ LET step(v, lo, hi) == IF v = "original" THEN XoroshiroOriginal(lo, hi)
                            ELSE XoroshiroX8664Asm(lo, hi)
         next(v) == LET st == Unwrap(results)[v]
                        r == step(v, st.seed_lo, st.seed_hi)
                    IN [seed_lo |-> r.seed_lo, seed_hi |-> r.seed_hi,
                        out |-> Append(st.out, r.result),
                        before |-> Append(st.before,
                                          << st.seed_lo, st.seed_hi >>)]
     IN /\ results' = Some([v \in XoroshiroVariants |-> next(v)])
        /\ pc' = IF Len(Unwrap(results)["original"].out) + 1 >= MaxCalls
                 THEN "returned" ELSE "call"
  /\ UNCHANGED << sched, affVars, entry, args, taskVars >>

\* every call_vs_branch variant is called on the value
CallVsBranchCall ==
  /\ entry = "call_vs_branch" /\ pc = "call"
  /\ results' =
       Some([original |-> ProcessWithCalls(args.value, args.overflow_checks),
             x86_64_asm_call |-> AsmProcessWithCalls(args.value),
             x86_64_asm_branch |-> ProcessWithBranch(args.value),
             x86_64_asm_inline |-> ProcessInline(args.value)])
  /\ pc' = "returned"
  /\ UNCHANGED << sched, affVars, entry, args, taskVars >>

\* every assembly and Rust elseif_vs_jumptable variant is called
DispatchCall ==
  /\ entry = "elseif_vs_jumptable" /\ pc = "call"
  /\ results' =
       Some([original |-> DispatchOperation(args.opcode, args.value,
                                            args.overflow_checks),
             x86_64_asm_branch |-> DispatchBranch(args.opcode, args.value),
             x86_64_asm_jumptable |->
               DispatchJumptable(args.opcode, args.value),
             x86_64_asm_branchless |->
               DispatchBranchless(args.opcode, args.value)])
  /\ pc' = "returned"
  /\ UNCHANGED << sched, affVars, entry, args, taskVars >>

\* both Rust dot products are called on the two vectors
DotProductCall ==
  /\ entry = "dot_product" /\ pc = "call"
  /\ results' = Some([original |-> DotProductOriginal(args.a, args.b),
                      scalar_opt |-> DotProductScalarOpt(args.a, args.b)])
  /\ pc' = "returned"
  /\ UNCHANGED << sched, affVars, entry, args, taskVars >>

PayloadNext ==
  \/ XoroshiroCall
  \/ CallVsBranchCall
  \/ DispatchCall
  \/ DotProductCall

SpecPayload == PayloadInit /\ [][PayloadNext]_vars

\* x >> s by bytes: whole bytes first, then the remaining bits
ShrU64(x, s) ==
  LET q == s \div 8
      p == << 1, 2, 4, 8, 16, 32, 64, 128, 256 >>
      lo == p[(s % 8) + 1]
      hi == p[9 - (s % 8)]
      at(k) == IF k <= U64Bytes THEN x[k] ELSE 0
  IN [k \in 1..U64Bytes |->
        ((at(k + q) \div lo) + (at(k + q + 1) % lo) * hi) % 256]

\* 2^n as a u64
Pow2U64(n) ==
  [k \in 1..U64Bytes |->
     IF k = (n \div 8) + 1
     THEN << 1, 2, 4, 8, 16, 32, 64, 128 >>[(n % 8) + 1] ELSE 0]

\* rotl64 by arithmetic: x * 2^n modulo 2^64, plus the n bits shifted out
Rotl64(x, n) == WrappingAdd(WrappingMul(x, Pow2U64(n)), ShrU64(x, 64 - n))

\* C24: every xoroshiro variant of the sources (the Rust original and the
\* x86_64 assembly) returns, at every index, (rotl64(s0 + s1, 17) + s0) mod
\* 2^64 of the state (s0, s1) it was called on and leaves the state
\* s0' = rotl64(s0, 49) XOR (s1 XOR s0) XOR ((s1 XOR s0) << 21),
\* s1' = rotl64(s1 XOR s0, 28), with << 21 a multiplication by 2^21 modulo
\* 2^64; state (1, 0) gives first output 131073; and every variant's outputs
\* and states equal those of xoroshiro_original
C24_XoroshiroStep ==
  entry = "xoroshiro" =>
    \A v \in XoroshiroVariants :
      LET st == Unwrap(results)[v]
          ref == Unwrap(results)["original"]
          after(k) == IF k < Len(st.out) THEN st.before[k + 1]
                      ELSE << st.seed_lo, st.seed_hi >>
      IN /\ Len(st.before) = Len(st.out)
         /\ Len(st.out) >= 1 => st.before[1] = args.seed
         /\ \A k \in 1..Len(st.out) :
              \A s0 \in { st.before[k][1] } : \A s1 \in { st.before[k][2] } :
                \A x \in { Xor(s1, s0) } :
                  /\ st.out[k] = WrappingAdd(Rotl64(WrappingAdd(s0, s1), 17), s0)
                  /\ after(k)[1] = Xor(Xor(Rotl64(s0, 49), x),
                                       WrappingMul(x, Pow2U64(21)))
                  /\ after(k)[2] = Rotl64(x, 28)
         /\ (args.seed = << U64Of(1), U64Of(0) >> /\ Len(st.out) >= 1)
              => st.out[1] = U64Of(131073)
         /\ st = ref

C24_Witness ==
  /\ entry = "xoroshiro"
  /\ pc = "returned"
  /\ args.seed = << U64Of(1), U64Of(0) >>
  /\ Len(Unwrap(results)["x86_64-asm"].out) = MaxCalls
  /\ Unwrap(results)["x86_64-asm"].out[1] = U64Of(131073)
  /\ Unwrap(results)["x86_64-asm"].out[2] # Unwrap(results)["x86_64-asm"].out[1]

\* C25: for every u32 value every call_vs_branch variant returns
\* ((2 * value + 10)^2) in 32-bit arithmetic, the result of
\* original::process_with_calls, and none panics; 5 gives 400, 0 gives 100
C25_CallVsBranchAgree ==
  (entry = "call_vs_branch" /\ pc = "returned") =>
    LET r == Unwrap(results)
        t == AsU32(WrappingAdd(WrappingMul(args.value, U64Of(2)), U64Of(10)))
        expected == AsU32(WrappingMul(t, t))
    IN /\ \A v \in DOMAIN r : r[v] = Some(expected) /\ r[v] = r.original
       /\ args.value = U64Of(5) => r.original = Some(U64Of(400))
       /\ args.value = U64Of(0) => r.original = Some(U64Of(100))

\* C26: for every opcode and u32 value every elseif_vs_jumptable variant
\* returns value * (opcode + 1) for an opcode up to 7 and 0 for any other
\* opcode, the result of original::dispatch_operation
C26_DispatchAgree ==
  (entry = "elseif_vs_jumptable" /\ pc = "returned") =>
    LET r == Unwrap(results)
        expected == IF args.opcode <= 7
                    THEN AsU32(WrappingMul(args.value, U64Of(args.opcode + 1)))
                    ELSE U64Of(0)
    IN \A v \in DOMAIN r : r[v] = Some(expected) /\ r[v] = r.original

\* the sum of a[i] * b[i] over the first n elements
RECURSIVE DotSum(_, _, _)
DotSum(a, b, n) == IF n = 0 THEN 0 ELSE DotSum(a, b, n - 1) + a[n] * b[n]

\* C27: on vectors of equal length n dot_product_original and
\* dot_product_scalar_opt both return the sum of a[i] * b[i], for every n
\* (0 for n = 0, without a panic); [1,2,3,4] . [5,6,7,8] is 70; on vectors
\* of different lengths both panic
C27_DotProduct ==
  (entry = "dot_product" /\ pc = "returned") =>
    LET r == Unwrap(results)
    IN /\ Len(args.a) = Len(args.b) =>
            /\ r.original = Some(DotSum(args.a, args.b, Len(args.a)))
            /\ r.scalar_opt = Some(DotSum(args.a, args.b, Len(args.a)))
       /\ Len(args.a) = 0 /\ Len(args.b) = 0 =>
            r.original = Some(0) /\ r.scalar_opt = Some(0)
       /\ (args.a = << 1, 2, 3, 4 >> /\ args.b = << 5, 6, 7, 8 >>) =>
            r.original = Some(70) /\ r.scalar_opt = Some(70)
       /\ Len(args.a) # Len(args.b) =>
            r.original = None /\ r.scalar_opt = None

C27_Witness ==
  /\ entry = "dot_product"
  /\ pc = "returned"
  /\ Len(args.a) = 5
  /\ Len(args.b) = 5
  /\ Unwrap(results).scalar_opt = Some(5)
  /\ Unwrap(results).original = Some(5)

\* C28: shuffle_with_rng visits i = n - 1 down to 1; every step draws one
\* value from the generator and swaps position i with position
\* j = (draw >> 33) mod (i + 1), so 0 <= j <= i < n; n - 1 draws are
\* consumed in all, and a slice of length 0 or 1 is returned unchanged with
\* no draw
C28_FisherYates ==
  /\ [](\A r \in Runs2 :
          LET s == sched[r]
              n == Len(s.slice)
          IN /\ (s.pc = "loop" /\ s.draws = 0) => s.i = n - 1
             /\ s.pc \in { "loop", "done" } =>
                  /\ Len(s.input) = n
                  /\ s.draws = (IF n = 0 THEN 0 ELSE n - 1) - (IF s.i < 0 THEN 0 ELSE s.i)
             /\ s.pc = "done" =>
                  /\ s.i = (IF n = 0 THEN -1 ELSE 0)
                  /\ s.draws = (IF n = 0 THEN 0 ELSE n - 1)
                  /\ n <= 1 => s.slice = s.input /\ s.draws = 0)
  /\ [][\A r \in Runs2 :
          (sched[r].pc = "loop" /\ sched'[r] # sched[r]) =>
            LET s == sched[r]
                t == sched'[r]
                n == Len(s.slice)
                draw == t.rng
                high == ShrU64(draw, 33)
                j == (high[1] + 256 * high[2] + 65536 * high[3]
                        + 16777216 * high[4]) % (s.i + 1)
            IN IF s.i >= 1
               THEN /\ t.pc = "loop"
                    /\ s.i <= n - 1
                    /\ draw = NextU64(s.rng)
                    /\ t.draws = s.draws + 1
                    /\ 0 <= j /\ j <= s.i
                    /\ t.lastj = j
                    /\ t.slice = [p \in 1..n |->
                                    IF p = s.i + 1 THEN s.slice[j + 1]
                                    ELSE IF p = j + 1 THEN s.slice[s.i + 1]
                                    ELSE s.slice[p]]
                    /\ t.i = s.i - 1
               ELSE /\ t.pc = "done"
                    /\ t.slice = s.slice /\ t.rng = s.rng
                    /\ t.draws = s.draws]_vars

C28_Witness ==
  \E r \in Runs2 :
    /\ sched[r].entry = "shuffle"
    /\ sched[r].pc = "done"
    /\ Len(sched[r].slice) = MaxSliceLen
    /\ sched[r].draws = MaxSliceLen - 1
    /\ sched[r].slice # sched[r].input

\* C29: the harness leaves the thread's affinity as it found it.  A guard
\* of the harness created on the original mask and dropped (after every task
\* under PerExecution, at the end of the execute phase under Global) leaves
\* the thread on the original mask, the restoring call, when it is made,
\* having succeeded; so with no system call failing the mask is the
\* original one whenever no guard is alive and when the call has returned
C29_AffinityAsFound ==
  /\ ( /\ IsSome(dropped)
       /\ ~Unwrap(dropped).restore_failed
       /\ Unwrap(dropped).guard.before = mask0 )
     => thread.affinity = mask0
  /\ (guards = << >> /\ ~oserr) => thread.affinity = mask0
  /\ (pc = "returned" /\ ~oserr) => thread.affinity = mask0

(***************************************************************************)
(* The public pin and unpin functions called directly, next to guards      *)
(* (utils/cpu_affinity.rs), on a linux thread.  events is the history of    *)
(* the calls: the function, what it returned, the thread before and after,  *)
(* and whether the restoring system call, if one was made, succeeded.       *)
(***************************************************************************)
MaxApiCalls == 3

ApiCall(call, ret, before, after, ok) ==
  [call |-> call, ret |-> ret, before |-> before, after |-> after, ok |-> ok]

\* pin_to_first_core() or pin_to_current_core(); the former does not ask for
\* the current cpu
PinCall ==
  /\ Len(events) < MaxApiCalls
  /\ \E call \in { "pin_to_first_core", "pin_to_current_core" },
        o \in PinOutcomes(thread) :
       /\ call = "pin_to_first_core" => ~IsSome(o.cpu)
       /\ LET r == IF call = "pin_to_first_core"
                   THEN PinToFirstCore(thread, o.cores, o.save2, o.set2)
                   ELSE PinToCurrentCore(thread, o)
          IN /\ thread' = r.thread
             /\ events' = Append(events,
                                 ApiCall(call, r.ret, thread, r.thread, TRUE))
             /\ oserr' = (oserr \/ PinFault(o))
  /\ UNCHANGED << sched, guards, dropped, mask0, entry, args, pc, config,
                  effective_seed, calls, tasks, rng, si, done_tasks,
                  measurements, result_samples, trace, results >>

\* unpin()
UnpinCall ==
  /\ Len(events) < MaxApiCalls
  /\ \E ok \in (IF IsSome(thread.ORIGINAL_AFFINITY) THEN BOOLEAN ELSE { TRUE }) :
       LET r == Unpin(thread, ok)
       IN /\ thread' = r.thread
          /\ events' = Append(events,
                              ApiCall("unpin", r.ret, thread, r.thread, ok))
          /\ oserr' = (oserr \/ ~ok)
  /\ UNCHANGED << sched, guards, dropped, mask0, entry, args, pc, config,
                  effective_seed, calls, tasks, rng, si, done_tasks,
                  measurements, result_samples, trace, results >>

\* let guard = CpuPinGuard::new();
PinGuardNew ==
  /\ Len(events) < MaxApiCalls
  /\ Len(guards) < MaxGuards
  /\ AcquireGuard
  /\ events' = Append(events,
                      ApiCall("CpuPinGuard::new",
                              guards'[Len(guards')].pinned_core, thread,
                              thread', TRUE))
  /\ UNCHANGED << sched, entry, args, pc, config, effective_seed, calls,
                  tasks, rng, si, done_tasks, measurements, result_samples,
                  trace, results >>

\* the innermost guard goes out of scope
PinGuardDrop ==
  /\ Len(events) < MaxApiCalls
  /\ ReleaseGuard
  /\ events' = Append(events,
                      ApiCall("drop", guards[Len(guards)].pinned_core, thread,
                              thread', ~Unwrap(dropped').restore_failed))
  /\ UNCHANGED << sched, entry, args, pc, config, effective_seed, calls,
                  tasks, rng, si, done_tasks, measurements, result_samples,
                  trace, results >>

PinNext ==
  \/ PinCall
  \/ UnpinCall
  \/ PinGuardNew
  \/ PinGuardDrop

SpecPin == AffInit /\ [][PinNext]_vars

\* C30: the saved-affinity slot is saved by a pin and consumed by an unpin.
\* (1) unpin() right after a pin call that succeeded returns true and puts
\* the thread back on the mask it had when that pin was made (the restoring
\* system call having succeeded); (2) unpin() with no pin of any kind since
\* the last unpin or guard drop, or since the thread started, returns false
\* and leaves the mask alone; (3) with no pinned guard alive, on a thread
\* that made no direct pin call, the slot is empty
C30_SaveConsumeProtocol ==
  LET pins == { "pin_to_first_core", "pin_to_current_core" }
      unpins == { "unpin", "drop" }
  IN /\ \A k \in 2..Len(events) :
          ( /\ events[k].call = "unpin"
            /\ events[k - 1].call \in pins
            /\ IsSome(events[k - 1].ret)
            /\ events[k].ok )
          => /\ events[k].ret = TRUE
             /\ events[k].after.affinity = events[k - 1].before.affinity
     /\ \A k \in 1..Len(events) :
          ( /\ events[k].call = "unpin"
            /\ \A h \in 1..(k - 1) :
                 events[h].call \notin unpins =>
                   \E m \in (h + 1)..(k - 1) : events[m].call \in unpins
            /\ \A h \in 1..(k - 1) :
                 events[h].call = "drop" => IsSome(events[h].ret) )
          => /\ events[k].ret = FALSE
             /\ events[k].after = events[k].before
     /\ ( /\ \A g \in DOMAIN guards : ~IsSome(guards[g].pinned_core)
          /\ \A k \in 1..Len(events) : events[k].call \notin pins )
        => thread.ORIGINAL_AFFINITY = None
====
